---- MODULE Spec2Model ----
(***************************************************************************)
(* Prompt optimisation service: prompt version store, experiment store,    *)
(* process-wide audit log and the promoter's guardrails.                   *)
(*                                                                         *)
(* Scores, deltas and thresholds are fixed-point numbers in thousandths:   *)
(* the code's 0.05 is 50 here, 0.7 is 700, and so on.  Python's None is    *)
(* the string None where a string is expected, the id 0 where a row id is  *)
(* expected (row ids start at 1) and the empty sequence where an object is *)
(* expected (<<v>> is then the object v).  A dict whose iteration order    *)
(* the code depends on is a sequence of <<key, value>> pairs with distinct *)
(* keys (insertion order); a dict that is only looked up is a function on  *)
(* its key set.                                                            *)
(***************************************************************************)
EXTENDS Integers, Sequences, FiniteSets, TLC

VARIABLES
    versions,     \* prompt_versions table: row id -> row          (models.py PromptVersion)
    experiments,  \* experiments table: row id -> row              (models.py Experiment)
    events,       \* AuditLogger.events, the process-wide list     (utils/audit.py)
    ret,          \* what the last call returned or raised
    er,           \* the ExperimentResult handed to should_promote
    dataset,      \* the dataset handed to should_promote (or None)
    calls,        \* how many calls the process has served
    sess,         \* per database session: position and pending unit of work
    engine,       \* how the configured database engine treats concurrent writers
    evaluation_results,  \* evaluation_results table, in insertion order (models.py EvaluationResult)
    arg           \* the arguments of the function an action applies, where it is a pure one

vars == <<versions, experiments, events, ret, er, dataset, calls, sess, engine, evaluation_results, arg>>

None == "None"

(***************************************************************************)
(* Settings (config.py), in thousandths.                                   *)
(***************************************************************************)
min_improvement_threshold == 50
min_absolute_score == 700
regression_threshold == 20
critical_case_pass_rate == 950
format_pass_rate == 980

(***************************************************************************)
(* Dict helpers.                                                           *)
(***************************************************************************)
\* d.get(k, 0.0) on a dict that is a function on its key set
Get(d, k) == IF k \in DOMAIN d THEN d[k] ELSE 0

\* d.get(k, 0.0) on an insertion-ordered dict
ItemsGet(items, k) ==
    IF \E i \in 1..Len(items) : items[i][1] = k
    THEN LET i == CHOOSE j \in 1..Len(items) : items[j][1] = k IN items[i][2]
    ELSE 0

ItemKeys(items) == {items[i][1] : i \in 1..Len(items)}

(***************************************************************************)
(* Dataset (evaluation/dataset.py): cases is a sequence of records with a  *)
(* critical flag (case["metadata"]["critical"]).                           *)
(***************************************************************************)
get_critical_cases_All(ds) == ds.cases
get_critical_cases(ds) == SelectSeq(ds.cases, LAMBDA c : c.critical)

\* `if dataset:` on Optional[Dataset]; Dataset defines __len__, so a dataset
\* without cases is falsy like None
DatasetTruthy(optds) == Len(optds) > 0 /\ Len(optds[1].cases) > 0

(***************************************************************************)
(* AuditLogger (utils/audit.py).  An event is the dict built by log();     *)
(* its wall-clock timestamp is not modelled.                               *)
(***************************************************************************)
AuditLog_Prepend(log, event_type, details, prompt_version_id) ==
    <<[event_type |-> event_type,
       prompt_version_id |-> prompt_version_id,
       user_id |-> None,
       details |-> details]>> \o log
AuditLog(log, event_type, details, prompt_version_id) ==
    Append(log, [event_type |-> event_type,
                 prompt_version_id |-> prompt_version_id,
                 user_id |-> None,
                 details |-> details])

log_prompt_change(log, from_version_id, to_version_id, change_summary, metrics_delta) ==
    AuditLog(log, "prompt_promoted",
             [from_version_id |-> from_version_id,
              to_version_id |-> to_version_id,
              change_summary |-> change_summary,
              metrics_delta |-> metrics_delta],
             to_version_id)

log_regression(log, version_id, dimension, baseline_score, candidate_score, delta) ==
    AuditLog(log, "regression_detected",
             [version_id |-> version_id,
              dimension |-> dimension,
              baseline_score |-> baseline_score,
              candidate_score |-> candidate_score,
              delta |-> delta],
             version_id)

log_guardrail_failure(log, version_id, guardrail_name, threshold, actual_value) ==
    AuditLog(log, "guardrail_failed",
             [guardrail_name |-> guardrail_name,
              threshold |-> threshold,
              actual_value |-> actual_value],
             version_id)

(***************************************************************************)
(* PromptPromoter._run_guardrails (improvement/promoter.py).               *)
(* The running state g is [issues, log]: the issues list and the audit     *)
(* log as the method has extended them so far.                             *)
(***************************************************************************)
BelowMinImprovement(aggregate_delta) == aggregate_delta < min_improvement_threshold

BelowMinAbsolute_Inclusive(candidate_aggregate) == candidate_aggregate <= min_absolute_score
BelowMinAbsolute(candidate_aggregate) == candidate_aggregate < min_absolute_score

IsRegression_Inclusive(dim, delta) == dim /= "aggregate" /\ delta <= -regression_threshold
IsRegression(dim, delta) == dim /= "aggregate" /\ delta < -regression_threshold

BelowFormatPassRate(rate) == rate < format_pass_rate

BelowCriticalPassRate(rate) == rate < critical_case_pass_rate

\* lines 57-70
CheckMinImprovement(g, x) ==
    LET aggregate_delta == ItemsGet(x.improvement_delta, "aggregate") IN
    IF BelowMinImprovement(aggregate_delta)
    THEN [issues |-> Append(g.issues, [msg |-> "Aggregate improvement below threshold",
                                       value |-> aggregate_delta,
                                       threshold |-> min_improvement_threshold]),
          log |-> log_guardrail_failure(g.log, x.experiment_id, "min_improvement_threshold",
                                        min_improvement_threshold, aggregate_delta)]
    ELSE g

\* lines 72-78
CheckMinAbsolute(g, x) ==
    LET candidate_aggregate == Get(x.candidate_metrics, "aggregate") IN
    IF BelowMinAbsolute(candidate_aggregate)
    THEN [g EXCEPT !.issues = Append(@, [msg |-> "Candidate absolute score below minimum",
                                         value |-> candidate_aggregate,
                                         threshold |-> min_absolute_score])]
    ELSE g

\* lines 80-97: the loop over improvement_delta.items(), in the dict's order
RECURSIVE CheckRegressions(_, _, _)
CheckRegressions(g, x, i) ==
    IF i > Len(x.improvement_delta) THEN g
    ELSE LET dim == x.improvement_delta[i][1]
             delta == x.improvement_delta[i][2]
             baseline_score == Get(x.baseline_metrics, dim)
             candidate_score == Get(x.candidate_metrics, dim)
             g2 == IF IsRegression(dim, delta)
                   THEN [issues |-> Append(g.issues, [msg |-> "Regression in",
                                                      dim |-> dim,
                                                      value |-> delta,
                                                      threshold |-> regression_threshold]),
                         log |-> log_regression(g.log, x.experiment_id, dim,
                                                baseline_score, candidate_score, delta)]
                   ELSE g
         IN CheckRegressions(g2, x, i + 1)

\* lines 99-105
CheckFormat(g, x) ==
    LET rate == Get(x.candidate_metrics, "format_adherence") IN
    IF BelowFormatPassRate(rate)
    THEN [g EXCEPT !.issues = Append(@, [msg |-> "Format pass rate below threshold",
                                         value |-> rate,
                                         threshold |-> format_pass_rate])]
    ELSE g

\* lines 107-121
CheckCritical(g, x, ds) ==
    LET critical_cases == IF DatasetTruthy(ds) THEN get_critical_cases(ds[1]) ELSE <<>>
        candidate_pass_rate == Get(x.candidate_metrics, "pass_rate")
    IN IF Len(critical_cases) > 0 /\ BelowCriticalPassRate(candidate_pass_rate)
       THEN [g EXCEPT !.issues = Append(@, [msg |-> "Pass rate below critical threshold",
                                            value |-> candidate_pass_rate,
                                            threshold |-> critical_case_pass_rate])]
       ELSE g

\* "; ".join(issues): the messages with the separator between neighbours
Separator == [msg |-> "; "]
RECURSIVE JoinIssues(_)
JoinIssues(issues) ==
    IF Len(issues) = 0 THEN <<>>
    ELSE IF Len(issues) = 1 THEN <<issues[1]>>
    ELSE <<issues[1], Separator>> \o JoinIssues(Tail(issues))

GuardrailOrder_FormatFirst(g, x, ds) ==
    CheckCritical(CheckRegressions(CheckMinAbsolute(CheckMinImprovement(CheckFormat(g, x), x), x), x, 1), x, ds)
GuardrailOrder(g, x, ds) ==
    CheckCritical(CheckFormat(CheckRegressions(CheckMinAbsolute(CheckMinImprovement(g, x), x), x, 1), x), x, ds)

_run_guardrails(log, x, ds) ==
    LET g == GuardrailOrder([issues |-> <<>>, log |-> log], x, ds) IN
    [all_passed |-> Len(g.issues) = 0,
     issues |-> g.issues,
     rationale |-> IF Len(g.issues) > 0 THEN JoinIssues(g.issues)
                   ELSE <<[msg |-> "All guardrails passed"]>>,
     log |-> g.log]

\* _generate_promotion_rationale: the model's text, opaque
LLMRationale == <<[msg |-> "llm promotion rationale"]>>

\* should_promote: (decision, rationale) and the audit log it leaves
should_promote(log, x, ds) ==
    LET checks == _run_guardrails(log, x, ds) IN
    [decision |-> checks.all_passed,
     rationale |-> IF ~checks.all_passed THEN checks.rationale ELSE LLMRationale,
     log |-> checks.log]

(***************************************************************************)
(* PromptStorage (storage/prompt_storage.py) on the prompt_versions table. *)
(* The table is a sequence of rows; a row's id is its index.  Timestamps   *)
(* are not tracked as values: created_at grows with the row id (one row is *)
(* inserted per request), and promoted_at is "unset" or "set".  A query    *)
(* ordered by promoted_at may therefore return any of the rows it selects. *)
(***************************************************************************)
get_version(vs, version_id) ==
    IF version_id \in DOMAIN vs THEN version_id ELSE 0

\* .order_by(desc(created_at)).first(): the prompt's newest row, 0 for none
get_latest_version(vs, prompt_id) ==
    LET rows == {i \in DOMAIN vs : vs[i].prompt_id = prompt_id} IN
    IF rows = {} THEN 0 ELSE CHOOSE i \in rows : \A j \in rows : j <= i

\* version strings are sequences of numbers: "1.0.0" is <<1, 0, 0>>; the code's
\* fallback for a last part that is no number never runs on versions it made
NextVersionString(vs, latest) ==
    IF latest /= 0
    THEN LET version_parts == vs[latest].version
         IN [version_parts EXCEPT ![Len(version_parts)] = @ + 1]
    ELSE <<1, 0, 0>>

create_version(vs, prompt_id, template, schema_definition, parent_version_id, status) ==
    Append(vs, [prompt_id |-> prompt_id,
                version |-> NextVersionString(vs, get_latest_version(vs, prompt_id)),
                template |-> template,
                schema_definition |-> schema_definition,
                parent_version_id |-> parent_version_id,
                status |-> status,
                promoted_at |-> "unset"])

\* the rows .order_by(desc(promoted_at)).first() may return: 0 for no row
get_active_version_AnyPromoted(vs, prompt_id) ==
    LET rows == {i \in DOMAIN vs : vs[i].prompt_id = prompt_id /\ vs[i].promoted_at = "set"} IN
    IF rows = {} THEN {0} ELSE rows
get_active_version(vs, prompt_id) ==
    LET rows == {i \in DOMAIN vs : vs[i].prompt_id = prompt_id /\ vs[i].status = "active"} IN
    IF rows = {} THEN {0} ELSE rows

\* lines 102-106: the bulk UPDATE that deprecates the prompt's active rows
DeprecateActive_Skip(vs, prompt_id) == vs
DeprecateActive_EveryPrompt(vs, prompt_id) ==
    [i \in DOMAIN vs |->
        IF vs[i].status = "active" THEN [vs[i] EXCEPT !.status = "deprecated"] ELSE vs[i]]
DeprecateActive(vs, prompt_id) ==
    [i \in DOMAIN vs |->
        IF vs[i].prompt_id = prompt_id /\ vs[i].status = "active"
        THEN [vs[i] EXCEPT !.status = "deprecated"]
        ELSE vs[i]]

\* lines 108-110
Activate(vs, version_id) ==
    [vs EXCEPT ![version_id].status = "active", ![version_id].promoted_at = "set"]

\* promote_version for a stored version_id
promote_version(vs, version_id) ==
    Activate(DeprecateActive(vs, vs[version_id].prompt_id), version_id)

(***************************************************************************)
(* ExperimentStorage (storage/experiment_storage.py).                      *)
(***************************************************************************)
get_experiment_First(es, experiment_id) ==
    IF experiment_id \in DOMAIN es THEN experiment_id ELSE IF Len(es) > 0 THEN 1 ELSE 0
get_experiment(es, experiment_id) ==
    IF experiment_id \in DOMAIN es THEN experiment_id ELSE 0

\* (created_at, which no query of the model reads, is left out of the row)
create_experiment_Promoted(es, baseline_version_id, candidate_version_id, dataset_id, metrics) ==
    Append(es, [baseline_version_id |-> baseline_version_id,
                candidate_version_id |-> candidate_version_id,
                dataset_id |-> dataset_id,
                metrics |-> metrics,
                improvement_rationale |-> None,
                promoted |-> TRUE])
create_experiment(es, baseline_version_id, candidate_version_id, dataset_id, metrics) ==
    Append(es, [baseline_version_id |-> baseline_version_id,
                candidate_version_id |-> candidate_version_id,
                dataset_id |-> dataset_id,
                metrics |-> metrics,
                improvement_rationale |-> None,
                promoted |-> FALSE])

mark_promoted_Toggle(es, experiment_id) ==
    LET experiment == get_experiment(es, experiment_id) IN
    IF experiment /= 0
    THEN [es EXCEPT ![experiment].promoted = ~es[experiment].promoted]
    ELSE es
mark_promoted(es, experiment_id) ==
    LET experiment == get_experiment(es, experiment_id) IN
    IF experiment /= 0
    THEN [es EXCEPT ![experiment].promoted = TRUE]
    ELSE es

(***************************************************************************)
(* Bounds of the model.                                                    *)
(***************************************************************************)
MaxCalls == 4         \* calls served by the process in one behaviour of Spec
MaxGuardCalls == 2    \* should_promote calls in one behaviour of SpecGuard

(***************************************************************************)
(* Inputs of should_promote, for the specification of the guardrails.      *)
(* Values sit on both sides of every threshold and on it.                  *)
(***************************************************************************)
MetricKeys == {"aggregate", "pass_rate", "format_adherence", "safety"}

CandidateValues(k) ==
    CASE k = "aggregate" -> {680, 700}
      [] k = "pass_rate" -> {940, 950}
      [] k = "format_adherence" -> {970, 980}
      [] OTHER -> {500}

DeltaKeys == {"aggregate", "pass_rate", "safety"}

DeltaValues(k) ==
    CASE k = "aggregate" -> {40, 50, 80}
      [] OTHER -> {-30, -20}

AllValues == UNION {CandidateValues(k) : k \in MetricKeys} \cup UNION {DeltaValues(k) : k \in DeltaKeys}

CandidateMetricsInputs ==
    UNION {{f \in [K -> AllValues] : \A k \in K : f[k] \in CandidateValues(k)} : K \in SUBSET MetricKeys}

BaselineMetricsInputs ==
    {<<>>, [aggregate |-> 600, pass_rate |-> 960, format_adherence |-> 990, safety |-> 530]}

ImprovementDeltaInputs ==
    UNION {{d \in [1..n -> DeltaKeys \X AllValues] :
                /\ \A i \in 1..n : d[i][2] \in DeltaValues(d[i][1])
                /\ \A i, j \in 1..n : d[i][1] = d[j][1] => i = j}
           : n \in 0..Cardinality(DeltaKeys)}

DatasetInputs ==
    {<<>>} \cup
    {<<[dataset_id |-> "d1", cases |-> cs]>> :
        cs \in {<<>>, <<[critical |-> FALSE]>>, <<[critical |-> FALSE], [critical |-> TRUE]>>}}

ExperimentResultInputs ==
    [experiment_id : {1},
     baseline_metrics : BaselineMetricsInputs,
     candidate_metrics : CandidateMetricsInputs,
     improvement_delta : ImprovementDeltaInputs]

NoSession == <<>>

(***************************************************************************)
(* SpecGuard: should_promote on every input above, called repeatedly on    *)
(* the one process-wide audit log.                                         *)
(***************************************************************************)
InitGuard ==
    /\ er \in ExperimentResultInputs
    /\ dataset \in DatasetInputs
    /\ events = <<>>
    /\ ret = [op |-> "init", raised |-> "", logStart |-> 0]
    /\ versions = <<>>
    /\ experiments = <<>>
    /\ calls = 0
    /\ sess = NoSession
    /\ engine = "none"
    /\ evaluation_results = <<>>
    /\ arg = <<>>

ShouldPromoteCall ==
    /\ calls < MaxGuardCalls
    /\ calls' = calls + 1
    /\ LET r == should_promote(events, er, dataset) IN
        /\ events' = r.log
        /\ ret' = [op |-> "should_promote", raised |-> "", logStart |-> Len(events),
                   decision |-> r.decision, rationale |-> r.rationale]
    /\ UNCHANGED <<versions, experiments, er, dataset, sess, engine, evaluation_results, arg>>

NextGuard == ShouldPromoteCall

SpecGuard == InitGuard /\ [][NextGuard]_vars

(***************************************************************************)
(* Claims about should_promote (SpecGuard).                                *)
(***************************************************************************)
\* what the last call appended to the audit log
Appended == SubSeq(events, ret.logStart + 1, Len(events))

\* the violation messages of a rationale: every other element, from the first
RationaleIssues(r) == [i \in 1..((Len(r) + 1) \div 2) |-> r[2 * i - 1]]

HasCriticalCase(optds) ==
    Len(optds) > 0 /\ \E i \in 1..Len(optds[1].cases) : optds[1].cases[i].critical

Guardrail1Holds == ItemsGet(er.improvement_delta, "aggregate") >= min_improvement_threshold
Guardrail2Holds == Get(er.candidate_metrics, "aggregate") >= min_absolute_score
Guardrail3Holds ==
    \A i \in 1..Len(er.improvement_delta) :
        er.improvement_delta[i][1] /= "aggregate" => er.improvement_delta[i][2] >= -regression_threshold
Guardrail4Holds == Get(er.candidate_metrics, "format_adherence") >= format_pass_rate
Guardrail5Holds ==
    HasCriticalCase(dataset) => Get(er.candidate_metrics, "pass_rate") >= critical_case_pass_rate

Scenario060To068 ==
    /\ Get(er.baseline_metrics, "aggregate") = 600
    /\ Get(er.candidate_metrics, "aggregate") = 680
    /\ ItemsGet(er.improvement_delta, "aggregate") = 80

HasIssue(r, m) == \E i \in 1..Len(RationaleIssues(r)) : RationaleIssues(r)[i].msg = m

\* C2: should_promote returns true exactly when the aggregate delta is at least
\* min_improvement_threshold, the candidate aggregate at least min_absolute_score,
\* every other delta at least -regression_threshold, the candidate format_adherence
\* at least format_pass_rate and, when the dataset has a critical case, the candidate
\* pass_rate at least critical_case_pass_rate; a missing key counts as 0 and equality
\* passes.  Baseline 0.60 against candidate 0.68 passes guardrail 1, fails guardrail 2
\* and is rejected.
C2_ShouldPromoteIffGuardrails ==
    ret.op = "should_promote" =>
        /\ ret.decision = (Guardrail1Holds /\ Guardrail2Holds /\ Guardrail3Holds
                           /\ Guardrail4Holds /\ Guardrail5Holds)
        /\ Scenario060To068 =>
               /\ ret.decision = FALSE
               /\ ~HasIssue(ret.rationale, "Aggregate improvement below threshold")
               /\ HasIssue(ret.rationale, "Candidate absolute score below minimum")

\* C2 witness: a call that returned true with every value exactly on its threshold
C2_Witness ==
    /\ ret.op = "should_promote"
    /\ ret.decision = TRUE
    /\ ItemsGet(er.improvement_delta, "aggregate") = min_improvement_threshold
    /\ Get(er.candidate_metrics, "aggregate") = min_absolute_score
    /\ "safety" \in ItemKeys(er.improvement_delta)
    /\ ItemsGet(er.improvement_delta, "safety") = -regression_threshold
    /\ Get(er.candidate_metrics, "format_adherence") = format_pass_rate
    /\ HasCriticalCase(dataset)
    /\ Get(er.candidate_metrics, "pass_rate") = critical_case_pass_rate

\* the messages the claim expects, in the claim's order
ExpectedRegressionIssues ==
    LET regressed == SelectSeq(er.improvement_delta,
                               LAMBDA kv : kv[1] /= "aggregate" /\ kv[2] < -regression_threshold)
    IN [i \in 1..Len(regressed) |->
            [msg |-> "Regression in", dim |-> regressed[i][1], value |-> regressed[i][2],
             threshold |-> regression_threshold]]

ExpectedIssues ==
    (IF Guardrail1Holds THEN <<>>
     ELSE <<[msg |-> "Aggregate improvement below threshold",
             value |-> ItemsGet(er.improvement_delta, "aggregate"),
             threshold |-> min_improvement_threshold]>>)
    \o (IF Guardrail2Holds THEN <<>>
        ELSE <<[msg |-> "Candidate absolute score below minimum",
                value |-> Get(er.candidate_metrics, "aggregate"),
                threshold |-> min_absolute_score]>>)
    \o ExpectedRegressionIssues
    \o (IF Guardrail4Holds THEN <<>>
        ELSE <<[msg |-> "Format pass rate below threshold",
                value |-> Get(er.candidate_metrics, "format_adherence"),
                threshold |-> format_pass_rate]>>)
    \o (IF Guardrail5Holds THEN <<>>
        ELSE <<[msg |-> "Pass rate below critical threshold",
                value |-> Get(er.candidate_metrics, "pass_rate"),
                threshold |-> critical_case_pass_rate]>>)

\* C3: when should_promote rejects, the rationale is the violation message of every
\* failed guardrail, in the order min-improvement, min-absolute-score, regressions,
\* format pass rate, critical-case pass rate, with "; " between neighbours; missing
\* the improvement threshold while regressing in safety yields both messages.
C3_RationaleListsEveryViolation ==
    (ret.op = "should_promote" /\ ret.decision = FALSE) =>
        /\ Len(ret.rationale) = 2 * Len(ExpectedIssues) - 1
        /\ RationaleIssues(ret.rationale) = ExpectedIssues
        /\ \A i \in 1..Len(ret.rationale) : (i % 2 = 0) => ret.rationale[i] = Separator
        /\ (~Guardrail1Holds /\ "safety" \in ItemKeys(er.improvement_delta)
                /\ ItemsGet(er.improvement_delta, "safety") < -regression_threshold) =>
               /\ HasIssue(ret.rationale, "Aggregate improvement below threshold")
               /\ \E i \in 1..Len(RationaleIssues(ret.rationale)) :
                      /\ RationaleIssues(ret.rationale)[i].msg = "Regression in"
                      /\ RationaleIssues(ret.rationale)[i].dim = "safety"

\* C3 witness: a rejection for a missed improvement threshold, a safety regression
\* and a low format pass rate at once
C3_Witness ==
    /\ ret.op = "should_promote"
    /\ ret.decision = FALSE
    /\ ~Guardrail1Holds
    /\ "safety" \in ItemKeys(er.improvement_delta)
    /\ ItemsGet(er.improvement_delta, "safety") < -regression_threshold
    /\ ~Guardrail4Holds
    /\ Len(ret.rationale) >= 5

RegressionEventsFor(dim) ==
    {i \in 1..Len(Appended) :
        /\ Appended[i].event_type = "regression_detected"
        /\ Appended[i].details.dimension = dim}

\* C9: one should_promote call appends exactly one regression_detected event, with
\* the dimension's name, baseline score, candidate score and delta, for every key
\* other than aggregate whose delta is below -regression_threshold, whatever the
\* other guardrails did, and none for a key whose delta is at or above it.
C9_OneRegressionEventPerRegression ==
    ret.op = "should_promote" =>
        \A i \in 1..Len(er.improvement_delta) :
            LET dim == er.improvement_delta[i][1]
                delta == er.improvement_delta[i][2]
            IN IF dim /= "aggregate" /\ delta < -regression_threshold
               THEN /\ Cardinality(RegressionEventsFor(dim)) = 1
                    /\ \A j \in RegressionEventsFor(dim) :
                          /\ Appended[j].details.baseline_score = Get(er.baseline_metrics, dim)
                          /\ Appended[j].details.candidate_score = Get(er.candidate_metrics, dim)
                          /\ Appended[j].details.delta = delta
               ELSE RegressionEventsFor(dim) = {}

\* C9 witness: a call that logged the safety regression although the improvement
\* guardrail had already failed, and logged none for pass_rate on the threshold
C9_Witness ==
    /\ ret.op = "should_promote"
    /\ ~Guardrail1Holds
    /\ ~Guardrail2Holds
    /\ Cardinality(RegressionEventsFor("safety")) = 1
    /\ "pass_rate" \in ItemKeys(er.improvement_delta)
    /\ ItemsGet(er.improvement_delta, "pass_rate") = -regression_threshold
    /\ RegressionEventsFor("pass_rate") = {}

\* the audit event that records a violation message
RecordedBy(issue, e) ==
    IF issue.msg = "Regression in"
    THEN /\ e.event_type = "regression_detected"
         /\ e.details.dimension = issue.dim
    ELSE /\ e.event_type = "guardrail_failed"
         /\ e.details.threshold = issue.threshold
         /\ e.details.actual_value = issue.value

\* C10: every guardrail that fails during a should_promote call is recorded in the
\* audit log during that call: no violation message is in the returned rationale
\* without a guardrail_failed or regression_detected event for it.
C10_EveryViolationAudited ==
    (ret.op = "should_promote" /\ ret.decision = FALSE) =>
        \A i \in 1..Len(RationaleIssues(ret.rationale)) :
            \E j \in 1..Len(Appended) : RecordedBy(RationaleIssues(ret.rationale)[i], Appended[j])

CriticalIssues(r) ==
    {i \in 1..Len(RationaleIssues(r)) : RationaleIssues(r)[i].msg = "Pass rate below critical threshold"}

\* C11: the critical-case guardrail adds its violation exactly when a dataset is
\* given, the dataset holds a case flagged critical and the candidate pass_rate is
\* below critical_case_pass_rate; without a dataset or without a critical case it
\* adds none, whatever the pass_rate (a missing pass_rate counts as 0).
C11_CriticalGuardrailOnlyWithCriticalCase ==
    ret.op = "should_promote" =>
        /\ Cardinality(CriticalIssues(ret.rationale)) =
               (IF HasCriticalCase(dataset)
                   /\ Get(er.candidate_metrics, "pass_rate") < critical_case_pass_rate
                THEN 1 ELSE 0)
        /\ ~HasCriticalCase(dataset) => (ret.decision = (Guardrail1Holds /\ Guardrail2Holds
                                                         /\ Guardrail3Holds /\ Guardrail4Holds))

\* the guardrail was the only one to fail: a critical case and a pass_rate just below
C11_Witness ==
    /\ ret.op = "should_promote"
    /\ ret.decision = FALSE
    /\ HasCriticalCase(dataset)
    /\ Get(er.candidate_metrics, "pass_rate") = critical_case_pass_rate - 10
    /\ Len(RationaleIssues(ret.rationale)) = 1
    /\ CriticalIssues(ret.rationale) = {1}

(***************************************************************************)
(* ExperimentRunner (improvement/experimenter.py).  What the evaluator     *)
(* measures is an input: the metrics _compute_metrics returns for each     *)
(* side, and the order in which the set of metric names iterates.  A       *)
(* dataset without cases yields aggregate 0, pass_rate 0 and no dimension. *)
(***************************************************************************)
EmptyDatasetMetrics == [aggregate |-> 0, pass_rate |-> 0]

EvaluationInputs ==
    {[dataset_id |-> "d0", baseline |-> EmptyDatasetMetrics, candidate |-> EmptyDatasetMetrics,
      order |-> <<"aggregate", "pass_rate">>],
     [dataset_id |-> "d1",
      baseline |-> [format_adherence |-> 900, aggregate |-> 900, pass_rate |-> 1000],
      candidate |-> [format_adherence |-> 980, aggregate |-> 980, pass_rate |-> 1000],
      order |-> <<"pass_rate", "format_adherence", "aggregate">>],
     [dataset_id |-> "d1",
      baseline |-> [format_adherence |-> 980, aggregate |-> 980, pass_rate |-> 1000],
      candidate |-> [format_adherence |-> 900, aggregate |-> 900, pass_rate |-> 1000],
      order |-> <<"aggregate", "format_adherence", "pass_rate">>]}

\* lines 50-53: the comprehension over set(baseline keys + candidate keys), in
\* the order the set iterates
RunDelta_Reversed(baseline_metrics, candidate_metrics, order) ==
    [i \in 1..Len(order) |->
        <<order[i], Get(baseline_metrics, order[i]) - Get(candidate_metrics, order[i])>>]
RunDelta(baseline_metrics, candidate_metrics, order) ==
    [i \in 1..Len(order) |->
        <<order[i], Get(candidate_metrics, order[i]) - Get(baseline_metrics, order[i])>>]

ExperimentResultOf(es, experiment_id) ==
    [experiment_id |-> experiment_id,
     baseline_metrics |-> es[experiment_id].metrics.baseline,
     candidate_metrics |-> es[experiment_id].metrics.candidate,
     improvement_delta |-> es[experiment_id].metrics.delta]

(***************************************************************************)
(* Spec: the stores and the audit log of one process.  Every action is one *)
(* call made in its own database session (storage/database.py get_db): the *)
(* session commits when the call returns and rolls back when it raises, so *)
(* versions and experiments are the committed tables.  The audit log is a  *)
(* plain list in memory: a rollback does not touch it.                     *)
(***************************************************************************)
PromptIds == {"p", "q"}
CreateStatuses == {"draft", "experimental"}
\* row ids handed to a call: every stored row's id and one id that is not stored
VersionIdInputs == 1..(Len(versions) + 1)
ExperimentIdInputs == 1..(Len(experiments) + 1)
RationaleInputs == {None, "approved"}
ShouldPromoteDatasets == {<<>>, <<[dataset_id |-> "d1", cases |-> <<[critical |-> TRUE]>>]>>}

Init ==
    /\ versions = <<>>
    /\ experiments = <<>>
    /\ events = <<>>
    /\ ret = [op |-> "init", raised |-> "", logStart |-> 0]
    /\ er = [experiment_id |-> 0]
    /\ dataset = <<>>
    /\ calls = 0
    /\ sess = NoSession
    /\ engine = "none"
    /\ evaluation_results = <<>>
    /\ arg = <<>>

\* POST /prompts/ and the self-improvement loop: create_version with a parent of the
\* same prompt (or none) and status draft or experimental
CreateVersion(prompt_id, parent_version_id, status) ==
    /\ parent_version_id /= 0 =>
           (parent_version_id \in DOMAIN versions /\ versions[parent_version_id].prompt_id = prompt_id)
    /\ versions' = create_version(versions, prompt_id, "t", None, parent_version_id, status)
    /\ ret' = [op |-> "create_version", raised |-> "", logStart |-> Len(events)]
    /\ UNCHANGED <<experiments, events, er, dataset, sess, engine, evaluation_results, arg>>

\* POST /prompts/versions/{id}/promote: PromptStorage.promote_version
PromoteVersion(version_id) ==
    /\ IF get_version(versions, version_id) = 0
       THEN /\ ret' = [op |-> "promote_version", raised |-> "ValueError: Version not found",
                       logStart |-> Len(events), version_id |-> version_id]
            /\ UNCHANGED versions
       ELSE /\ versions' = promote_version(versions, version_id)
            /\ ret' = [op |-> "promote_version", raised |-> "",
                       logStart |-> Len(events), version_id |-> version_id]
    /\ UNCHANGED <<experiments, events, er, dataset, sess, engine, evaluation_results, arg>>

\* ExperimentRunner.run_experiment: evaluate baseline, then candidate, then store
RunExperiment(baseline_version_id, candidate_version_id, ev) ==
    /\ IF get_version(versions, baseline_version_id) = 0
          \/ get_version(versions, candidate_version_id) = 0
       THEN /\ ret' = [op |-> "run_experiment", raised |-> "ValueError: Prompt version not found",
                       logStart |-> Len(events)]
            /\ UNCHANGED experiments
       ELSE /\ experiments' = create_experiment(experiments, baseline_version_id, candidate_version_id,
                                  ev.dataset_id,
                                  [baseline |-> ev.baseline,
                                   candidate |-> ev.candidate,
                                   delta |-> RunDelta(ev.baseline, ev.candidate, ev.order)])
            /\ ret' = [op |-> "run_experiment", raised |-> "", logStart |-> Len(events)]
    /\ UNCHANGED <<versions, events, er, dataset, sess, engine, evaluation_results, arg>>

\* PromptPromoter.should_promote on a stored experiment's result
ShouldPromote(experiment_id, optds) ==
    /\ experiment_id \in DOMAIN experiments
    /\ LET r == should_promote(events, ExperimentResultOf(experiments, experiment_id), optds) IN
        /\ events' = r.log
        /\ ret' = [op |-> "should_promote", raised |-> "", logStart |-> Len(events),
                   experiment_id |-> experiment_id,
                   decision |-> r.decision, rationale |-> r.rationale]
    /\ UNCHANGED <<versions, experiments, er, dataset, sess, engine, evaluation_results, arg>>

\* line 173
ChangeSummary(rationale, experiment_id) ==
    IF rationale /= None
    THEN [text |-> rationale, experiment_id |-> 0]
    ELSE [text |-> "Promoted based on experiment", experiment_id |-> experiment_id]

\* PromptPromoter.promote
Promote(experiment_id, candidate_version_id, rationale) ==
    LET experiment == get_experiment(experiments, experiment_id) IN
    IF experiment = 0
    THEN /\ ret' = [op |-> "promote", raised |-> "ValueError: Experiment not found",
                    logStart |-> Len(events),
                    experiment_id |-> experiment_id, version_id |-> candidate_version_id]
         /\ UNCHANGED <<versions, experiments, events, er, dataset, sess, engine, evaluation_results, arg>>
    ELSE /\ events' = log_prompt_change(events,
                          experiments[experiment].baseline_version_id,
                          candidate_version_id,
                          ChangeSummary(rationale, experiment_id),
                          experiments[experiment].metrics.delta)
         /\ IF get_version(versions, candidate_version_id) = 0
            THEN \* promote_version raises after mark_promoted: the session rolls back
                 /\ ret' = [op |-> "promote", raised |-> "ValueError: Version not found",
                            logStart |-> Len(events),
                            experiment_id |-> experiment_id, version_id |-> candidate_version_id]
                 /\ UNCHANGED <<versions, experiments>>
            ELSE /\ experiments' = mark_promoted(experiments, experiment_id)
                 /\ versions' = promote_version(versions, candidate_version_id)
                 /\ ret' = [op |-> "promote", raised |-> "", logStart |-> Len(events),
                            experiment_id |-> experiment_id, version_id |-> candidate_version_id]
         /\ UNCHANGED <<er, dataset, sess, engine, evaluation_results, arg>>

Call ==
    \/ \E p \in PromptIds, parent \in 0..Len(versions), st \in CreateStatuses : CreateVersion(p, parent, st)
    \/ \E v \in VersionIdInputs : PromoteVersion(v)
    \/ \E b, c \in VersionIdInputs, ev \in EvaluationInputs : RunExperiment(b, c, ev)
    \/ \E e \in ExperimentIdInputs, ds \in ShouldPromoteDatasets : ShouldPromote(e, ds)
    \/ \E e \in ExperimentIdInputs, c \in VersionIdInputs, r \in RationaleInputs : Promote(e, c, r)

Next == calls < MaxCalls /\ calls' = calls + 1 /\ Call

Spec == Init /\ [][Next]_vars

(***************************************************************************)
(* Properties of Spec.                                                     *)
(***************************************************************************)
ActiveVersions(vs, prompt_id) ==
    {i \in DOMAIN vs : vs[i].prompt_id = prompt_id /\ vs[i].status = "active"}

\* the step is one served call of PromptPromoter.promote
PromoteStep == calls' = calls + 1 /\ ret'.op = "promote"

\* the step is a call that promoted version b: promote_version returned
PromotedStep(b) ==
    /\ calls' = calls + 1
    /\ ret'.op \in {"promote", "promote_version"}
    /\ ret'.raised = ""
    /\ ret'.version_id = b

\* C1: in every state reached by create_version (draft or experimental),
\* promote_version and promote calls of one process, at most one version of a
\* prompt_id has status active.
C1_AtMostOneActivePerPrompt ==
    \A p \in PromptIds : Cardinality(ActiveVersions(versions, p)) <= 1

\* a second promotion has happened for a prompt: one version is active, another
\* one of the same prompt was active before and is deprecated
C1_Witness ==
    /\ ret.op \in {"promote", "promote_version"}
    /\ ret.raised = ""
    /\ \E a, b \in DOMAIN versions :
        /\ a /= b
        /\ versions[a].prompt_id = versions[b].prompt_id
        /\ versions[a].status = "deprecated"
        /\ versions[b].status = "active"

\* C4: when version A of a prompt is active (it was promoted) and another version B
\* of the same prompt is promoted, A is deprecated and B is active afterwards, and
\* get_active_version of the prompt returns B.
C4_PromoteAThenB ==
    [][\A a, b \in DOMAIN versions :
          (/\ a /= b
           /\ versions[a].prompt_id = versions[b].prompt_id
           /\ versions[a].status = "active"
           /\ PromotedStep(b))
          => /\ versions'[a].status = "deprecated"
             /\ versions'[b].status = "active"
             /\ get_active_version(versions', versions[b].prompt_id) = {b}]_vars

\* B has just been promoted over A, which was promoted earlier
C4_Witness ==
    /\ ret.op = "promote_version"
    /\ ret.raised = ""
    /\ \E a \in DOMAIN versions :
        /\ a /= ret.version_id
        /\ versions[a].prompt_id = versions[ret.version_id].prompt_id
        /\ versions[a].promoted_at = "set"
        /\ versions[a].status = "deprecated"
    /\ get_active_version(versions, versions[ret.version_id].prompt_id) = {ret.version_id}

\* C5: a promote call that follows a successful promote call with the same
\* experiment_id and candidate_version_id appends no audit event: the two calls log
\* the promoted transition once.
C5_SecondPromoteLogsNothing ==
    [][(/\ ret.op = "promote"
        /\ ret.raised = ""
        /\ PromoteStep
        /\ ret'.experiment_id = ret.experiment_id
        /\ ret'.version_id = ret.version_id)
       => events' = events]_vars

\* C6: a stored experiment keeps its baseline version, candidate version, dataset_id
\* and metrics; its promoted flag never goes from true to false and changes only in
\* a promote call for that experiment; a new experiment is stored with promoted
\* false.
C6_ExperimentImmutableButPromoted ==
    [][/\ \A e \in DOMAIN experiments :
            /\ e \in DOMAIN experiments'
            /\ experiments'[e].baseline_version_id = experiments[e].baseline_version_id
            /\ experiments'[e].candidate_version_id = experiments[e].candidate_version_id
            /\ experiments'[e].dataset_id = experiments[e].dataset_id
            /\ experiments'[e].metrics = experiments[e].metrics
            /\ experiments[e].promoted => experiments'[e].promoted
            /\ experiments'[e].promoted /= experiments[e].promoted
                   => (PromoteStep /\ ret'.experiment_id = e)
       /\ \A e \in DOMAIN experiments' \ DOMAIN experiments :
            experiments'[e].promoted = FALSE]_vars

\* promote has returned for an experiment that an earlier promote had marked
C6_Witness ==
    /\ ret.op = "promote"
    /\ ret.raised = ""
    /\ experiments[ret.experiment_id].promoted
    /\ \E i \in 1..Len(events) :
        /\ i <= ret.logStart
        /\ events[i].event_type = "prompt_promoted"

\* C7: a promote call whose experiment_id has no stored experiment raises the
\* not-found error, appends no audit event, and changes no experiment and no version.
C7_MissingExperimentChangesNothing ==
    [][(PromoteStep /\ ret'.experiment_id \notin DOMAIN experiments)
       => /\ ret'.raised = "ValueError: Experiment not found"
          /\ events' = events
          /\ experiments' = experiments
          /\ versions' = versions]_vars

\* promote was refused for a missing experiment while an experiment, an active
\* version and a version that the call named are stored
C7_Witness ==
    /\ ret.op = "promote"
    /\ ret.raised = "ValueError: Experiment not found"
    /\ Len(experiments) > 0
    /\ ret.version_id \in DOMAIN versions
    /\ versions[ret.version_id].status /= "active"

(***************************************************************************)
(* SpecRace: two requests promote versions at the same time, each in its   *)
(* own session (storage/database.py get_db).  versions is the committed    *)
(* table.  A session runs promote_version as the statements the ORM sends: *)
(* the SELECT of get_version, the bulk UPDATE that deprecates the prompt's *)
(* active rows (executed at once, uncommitted), the assignment of status   *)
(* to the loaded object (held in the session: autoflush is off), and the   *)
(* commit of get_db, which flushes that assignment and commits.            *)
(*                                                                         *)
(* database_url selects the engine.  "sqlite" (the default) lets one       *)
(* connection write at a time: an UPDATE waits for the writer's commit or  *)
(* gives up with "database is locked".  "read_committed" is a server       *)
(* database at its default isolation level: a statement sees what was      *)
(* committed when it started and waits only for rows another transaction   *)
(* has written; a statement that waited is taken to start when the wait   *)
(* ends.  The table has no uniqueness constraint on (prompt_id, status)   *)
(* and promote_version takes no row lock (models.py 45-61).                *)
(***************************************************************************)
MaxRaceRows == 2      \* rows of prompt_versions when the two requests arrive

Sessions == {"s1", "s2"}
Engines == {"sqlite", "read_committed"}

RaceRowInputs == [prompt_id : PromptIds, status : {"draft", "active", "deprecated"}]

\* the table that holds one row per element of rows, made by create_version and
\* brought to its status by promotions
RECURSIVE StoredTable(_)
StoredTable(rows) ==
    IF rows = <<>>
    THEN <<>>
    ELSE LET n == Len(rows)
             vs == create_version(StoredTable(SubSeq(rows, 1, n - 1)), rows[n].prompt_id, "t", None, 0, "draft")
         IN IF rows[n].status = "draft"
            THEN vs
            ELSE [vs EXCEPT ![n].status = rows[n].status, ![n].promoted_at = "set"]

\* tables that promotions made one after the other leave: one active row per prompt
\* at most, and a deprecated row only beside the active row that replaced it
SeriallyPromoted(vs) ==
    \A p \in PromptIds :
        /\ Cardinality(ActiveVersions(vs, p)) <= 1
        /\ (\E i \in DOMAIN vs : vs[i].prompt_id = p /\ vs[i].status = "deprecated")
               => ActiveVersions(vs, p) /= {}

RaceTables ==
    {vs \in {StoredTable(rows) : rows \in [1..MaxRaceRows -> RaceRowInputs]} : SeriallyPromoted(vs)}

NewSession == [pc |-> "new", version_id |-> 0, writes |-> {}]

InitRace ==
    /\ versions \in RaceTables
    /\ engine \in Engines
    /\ evaluation_results = <<>>
    /\ arg = <<>>
    /\ sess = [s \in Sessions |-> NewSession]
    /\ experiments = <<>>
    /\ events = <<>>
    /\ ret = [op |-> "init", raised |-> "", logStart |-> 0]
    /\ er = [experiment_id |-> 0]
    /\ dataset = <<>>
    /\ calls = 0

\* the session has written rows and has not committed
InTransaction(s) == sess[s].pc \in {"updated", "activated"}

\* rows that the other sessions have written and not committed
LockedRows(s) ==
    UNION {sess[t].writes : t \in {u \in Sessions \ {s} : InTransaction(u)}}

\* sqlite: another connection holds the database's write lock
WriterElsewhere(s) == \E t \in Sessions \ {s} : InTransaction(t)

\* the statement of session s that writes rows has to wait
MustWait(s, rows) ==
    IF engine = "sqlite" THEN WriterElsewhere(s) ELSE rows \cap LockedRows(s) /= {}

\* lines 98-100: get_version, and the ValueError that rolls the session back
GetVersion(s, version_id) ==
    /\ sess[s].pc = "new"
    /\ sess' = [sess EXCEPT ![s] =
                   IF get_version(versions, version_id) = 0
                   THEN [@ EXCEPT !.pc = "rolled_back", !.version_id = version_id]
                   ELSE [@ EXCEPT !.pc = "read", !.version_id = version_id]]
    /\ UNCHANGED <<versions, experiments, events, ret, er, dataset, calls, engine, evaluation_results, arg>>

\* lines 102-106: the bulk UPDATE runs on what is committed; the rows it changes
\* stay uncommitted writes of the session
DeprecateUpdate(s) ==
    /\ sess[s].pc = "read"
    /\ LET prompt_id == versions[sess[s].version_id].prompt_id
           after == DeprecateActive(versions, prompt_id)
           rows == {i \in DOMAIN versions : after[i] /= versions[i]}
       IN /\ ~MustWait(s, rows)
          /\ sess' = [sess EXCEPT ![s].pc = "updated", ![s].writes = rows]
    /\ UNCHANGED <<versions, experiments, events, ret, er, dataset, calls, engine, evaluation_results, arg>>

\* sqlite's busy timeout runs out while another connection keeps the write lock: the
\* UPDATE raises OperationalError and get_db rolls the session back
DeprecateBusy(s) ==
    /\ sess[s].pc = "read"
    /\ engine = "sqlite"
    /\ WriterElsewhere(s)
    /\ sess' = [sess EXCEPT ![s].pc = "rolled_back"]
    /\ UNCHANGED <<versions, experiments, events, ret, er, dataset, calls, engine, evaluation_results, arg>>

\* lines 108-110: the loaded object is made active in the session
ActivateSelf(s) ==
    /\ sess[s].pc = "updated"
    /\ sess' = [sess EXCEPT ![s].pc = "activated"]
    /\ UNCHANGED <<versions, experiments, events, ret, er, dataset, calls, engine, evaluation_results, arg>>

\* the session's writes as the commit makes them visible: the rows the bulk UPDATE
\* deprecated
DeprecateRows_AllActive(vs, rows) ==
    [i \in DOMAIN vs |-> IF vs[i].status = "active" THEN [vs[i] EXCEPT !.status = "deprecated"] ELSE vs[i]]
DeprecateRows(vs, rows) ==
    [i \in DOMAIN vs |-> IF i \in rows THEN [vs[i] EXCEPT !.status = "deprecated"] ELSE vs[i]]

\* get_db line 28: commit flushes the object's UPDATE and commits the transaction
Commit(s) ==
    /\ sess[s].pc = "activated"
    /\ engine /= "sqlite" => sess[s].version_id \notin LockedRows(s)
    /\ versions' = Activate(DeprecateRows(versions, sess[s].writes), sess[s].version_id)
    /\ sess' = [sess EXCEPT ![s].pc = "committed"]
    /\ UNCHANGED <<experiments, events, ret, er, dataset, calls, engine, evaluation_results, arg>>

NextRace ==
    \E s \in Sessions :
        \/ \E v \in 1..(Len(versions) + 1) : GetVersion(s, v)
        \/ DeprecateUpdate(s)
        \/ DeprecateBusy(s)
        \/ ActivateSelf(s)
        \/ Commit(s)

SpecRace == InitRace /\ [][NextRace]_vars

\* both requests have committed promotions of different versions of one prompt
BothCommitted(s, t) ==
    /\ s /= t
    /\ sess[s].pc = "committed"
    /\ sess[t].pc = "committed"
    /\ sess[s].version_id /= sess[t].version_id
    /\ versions[sess[s].version_id].prompt_id = versions[sess[t].version_id].prompt_id

\* C8: when two sessions have committed promotions of different versions of one
\* prompt and each ran its deprecating UPDATE before the other committed (so neither
\* UPDATE touched the other's target), both targets are active in the committed
\* table: the prompt has two active versions.
C8_RaceCommitsTwoActive ==
    \A s, t \in Sessions :
        (/\ BothCommitted(s, t)
         /\ sess[t].version_id \notin sess[s].writes
         /\ sess[s].version_id \notin sess[t].writes)
        => /\ versions[sess[s].version_id].status = "active"
           /\ versions[sess[t].version_id].status = "active"
           /\ Cardinality(ActiveVersions(versions, versions[sess[s].version_id].prompt_id)) = 2

\* the two promotions raced and the committed table has two active versions of a prompt
C8_Witness ==
    /\ \A s \in Sessions : sess[s].pc = "committed"
    /\ \E p \in PromptIds : Cardinality(ActiveVersions(versions, p)) = 2

(***************************************************************************)
(* SpecAudit: the audit logger under every operation that reaches it: the  *)
(* four logging methods, the two queries, should_promote and promote.  The *)
(* stores hold one version and one experiment, so that promote logs.  The  *)
(* human_readable text of an event and the summary built from it are not   *)
(* modelled.                                                               *)
(***************************************************************************)
MaxAuditCalls == 3    \* calls on the audit logger in one behaviour of SpecAudit

\* lines 120-131: prompt_version_id 0 and limit 0 are falsy like None; a
\* negative limit makes events[-limit:] drop the first -limit events
get_audit_trail(log, prompt_version_id, event_type, limit) ==
    LET byVersion == IF prompt_version_id /= 0
                     THEN SelectSeq(log, LAMBDA e : e.prompt_version_id = prompt_version_id)
                     ELSE log
        byType == IF event_type /= None
                  THEN SelectSeq(byVersion, LAMBDA e : e.event_type = event_type)
                  ELSE byVersion
        n == Len(byType)
    IN IF limit > 0 THEN SubSeq(byType, IF n > limit THEN n - limit + 1 ELSE 1, n)
       ELSE IF limit < 0 THEN SubSeq(byType, 1 - limit, n)
       ELSE byType

\* lines 153-157: the positive entries of the metrics_delta of prompt_promoted events
RECURSIVE Improvements(_)
Improvements(trail) ==
    IF trail = <<>>
    THEN <<>>
    ELSE (IF trail[1].event_type = "prompt_promoted"
          THEN SelectSeq(trail[1].details.metrics_delta, LAMBDA kv : kv[2] > 0)
          ELSE <<>>) \o Improvements(Tail(trail))

RECURSIVE Regressions(_)
Regressions(trail) ==
    IF trail = <<>>
    THEN <<>>
    ELSE (IF trail[1].event_type = "regression_detected" THEN <<trail[1].details>> ELSE <<>>)
         \o Regressions(Tail(trail))

get_interpretable_explanation(log, prompt_version_id) ==
    LET trail == get_audit_trail(log, prompt_version_id, None, 0) IN
    [prompt_version_id |-> prompt_version_id,
     regressions |-> Regressions(trail),
     improvements |-> Improvements(trail),
     total_events |-> Len(trail)]

AuditVersionIds == 0..2
AuditEventTypes == {None, "prompt_promoted", "regression_detected"}
AuditLimits == {-1, 0, 1}
AuditDeltaInputs == {<<>>, <<<<"aggregate", 80>>, <<"safety", -30>>>>}

AuditExperimentResults ==
    {x \in ExperimentResultInputs :
        /\ x.baseline_metrics /= <<>>
        /\ x.candidate_metrics = [aggregate |-> 700, format_adherence |-> 980]
        /\ Len(x.improvement_delta) = 2
        /\ x.improvement_delta[1][1] = "aggregate"
        /\ x.improvement_delta[2][1] = "safety"}

InitAudit ==
    /\ versions = create_version(<<>>, "p", "t", None, 0, "draft")
    /\ experiments = create_experiment(<<>>, 1, 1, "d1",
                         [baseline |-> [aggregate |-> 900], candidate |-> [aggregate |-> 980],
                          delta |-> <<<<"aggregate", 80>>>>])
    /\ events = <<>>
    /\ ret = [op |-> "init", raised |-> "", logStart |-> 0]
    /\ er \in AuditExperimentResults
    /\ dataset = <<>>
    /\ calls = 0
    /\ sess = NoSession
    /\ engine = "none"
    /\ evaluation_results = <<>>
    /\ arg = <<>>

LogCall(version_id) ==
    /\ events' = AuditLog(events, "evaluation_run", [dataset_id |-> "d1"], version_id)
    /\ ret' = [op |-> "log", raised |-> "", logStart |-> Len(events)]
    /\ UNCHANGED <<versions, experiments, er, dataset, sess, engine, evaluation_results, arg>>

LogPromptChangeCall(to_version_id, metrics_delta) ==
    /\ events' = log_prompt_change(events, 1, to_version_id, [text |-> "manual", experiment_id |-> 0],
                                   metrics_delta)
    /\ ret' = [op |-> "log_prompt_change", raised |-> "", logStart |-> Len(events)]
    /\ UNCHANGED <<versions, experiments, er, dataset, sess, engine, evaluation_results, arg>>

LogRegressionCall(version_id) ==
    /\ events' = log_regression(events, version_id, "safety", 530, 500, -30)
    /\ ret' = [op |-> "log_regression", raised |-> "", logStart |-> Len(events)]
    /\ UNCHANGED <<versions, experiments, er, dataset, sess, engine, evaluation_results, arg>>

LogGuardrailFailureCall(version_id) ==
    /\ events' = log_guardrail_failure(events, version_id, "min_improvement",
                                       min_improvement_threshold, 40)
    /\ ret' = [op |-> "log_guardrail_failure", raised |-> "", logStart |-> Len(events)]
    /\ UNCHANGED <<versions, experiments, er, dataset, sess, engine, evaluation_results, arg>>

GetAuditTrailCall(prompt_version_id, event_type, limit) ==
    /\ ret' = [op |-> "get_audit_trail", raised |-> "", logStart |-> Len(events),
               result |-> get_audit_trail(events, prompt_version_id, event_type, limit)]
    /\ UNCHANGED <<versions, experiments, events, er, dataset, sess, engine, evaluation_results, arg>>

GetInterpretableExplanationCall(prompt_version_id) ==
    /\ ret' = [op |-> "get_interpretable_explanation", raised |-> "", logStart |-> Len(events),
               result |-> get_interpretable_explanation(events, prompt_version_id)]
    /\ UNCHANGED <<versions, experiments, events, er, dataset, sess, engine, evaluation_results, arg>>

ShouldPromoteAudit ==
    LET r == should_promote(events, er, dataset) IN
    /\ events' = r.log
    /\ ret' = [op |-> "should_promote", raised |-> "", logStart |-> Len(events),
               decision |-> r.decision, rationale |-> r.rationale]
    /\ UNCHANGED <<versions, experiments, er, dataset, sess, engine, evaluation_results, arg>>

AuditCall ==
    \/ \E v \in AuditVersionIds : LogCall(v)
    \/ \E v \in 1..2, d \in AuditDeltaInputs : LogPromptChangeCall(v, d)
    \/ \E v \in 1..2 : LogRegressionCall(v)
    \/ \E v \in 1..2 : LogGuardrailFailureCall(v)
    \/ \E v \in AuditVersionIds, t \in AuditEventTypes, l \in AuditLimits : GetAuditTrailCall(v, t, l)
    \/ \E v \in AuditVersionIds : GetInterpretableExplanationCall(v)
    \/ ShouldPromoteAudit
    \/ \E e \in 1..2, c \in 1..2 : Promote(e, c, None)

NextAudit == calls < MaxAuditCalls /\ calls' = calls + 1 /\ AuditCall

SpecAudit == InitAudit /\ [][NextAudit]_vars

\* C12: every operation on the audit logger leaves the events logged before it
\* unchanged and in their order, and the log never gets shorter.
C12_AuditLogAppendOnly ==
    [][/\ Len(events') >= Len(events)
       /\ SubSeq(events', 1, Len(events)) = events]_vars

\* the log holds events that logging calls, should_promote and promote appended, and
\* a query over it has just returned some of them
C12_Witness ==
    /\ ret.op \in {"get_audit_trail", "get_interpretable_explanation"}
    /\ Len(events) >= 2
    /\ \E i, j \in 1..Len(events) :
        /\ i < j
        /\ events[i].event_type \in {"guardrail_failed", "regression_detected"}
        /\ events[j].event_type = "prompt_promoted"
    /\ IF ret.op = "get_audit_trail" THEN Len(ret.result) > 0 ELSE ret.result.total_events > 0

(***************************************************************************)
(* Evaluator (evaluation/evaluator.py), validators and template rendering. *)
(* Scores are exact: 1.0 is One units, and One is divisible by every       *)
(* number of cases and of dimensions an evaluation of the model averages   *)
(* over, so that every mean is a whole number of units.  Floating-point    *)
(* rounding is not modelled.                                               *)
(***************************************************************************)
MaxEvalCases == 2     \* cases of a dataset under evaluation

RECURSIVE Factorial(_)
Factorial(n) == IF n <= 1 THEN 1 ELSE n * Factorial(n - 1)

One == 1000 * 6 * Factorial(MaxEvalCases)

\* a score given in thousandths, in units
Score(thousandths) == thousandths * (One \div 1000)

RECURSIVE SumSeq(_)
SumSeq(xs) == IF xs = <<>> THEN 0 ELSE xs[1] + SumSeq(Tail(xs))

(***************************************************************************)
(* utils/prompt_utils.py.  A template is the sequence of its placeholder   *)
(* names in order of appearance; variables is the set of bound names.      *)
(* str.format raises KeyError at the first placeholder without a binding.  *)
(***************************************************************************)
Unbound(template, variables) == SelectSeq(template, LAMBDA name : name \notin variables)

FirstMissing(template, variables) == {Unbound(template, variables)[1]}

render_prompt(template, variables) ==
    IF Unbound(template, variables) = <<>>
    THEN [raised |-> "", filled |-> template, missing |-> {}]
    ELSE [raised |-> "ValueError: Missing required variable", filled |-> <<>>,
          missing |-> FirstMissing(template, variables)]

(***************************************************************************)
(* utils/validators.py JSONSchemaValidator.validate.  An output is what    *)
(* the parsing steps make of its text: whether json.loads accepts it       *)
(* (parses) and the parsed value fits the schema (conforms); if not,       *)
(* whether a "{" comes before the last "}" (braces), and whether the text  *)
(* between them parses (inner_parses) and fits the schema (inner_conforms).*)
(***************************************************************************)
OutputInputs ==
    {[kind |-> "json_conforming", parses |-> TRUE, conforms |-> TRUE,
      braces |-> TRUE, inner_parses |-> TRUE, inner_conforms |-> TRUE],
     [kind |-> "json_not_conforming", parses |-> TRUE, conforms |-> FALSE,
      braces |-> TRUE, inner_parses |-> TRUE, inner_conforms |-> FALSE],
     [kind |-> "text", parses |-> FALSE, conforms |-> FALSE,
      braces |-> FALSE, inner_parses |-> FALSE, inner_conforms |-> FALSE],
     [kind |-> "text_around_conforming_json", parses |-> FALSE, conforms |-> FALSE,
      braces |-> TRUE, inner_parses |-> TRUE, inner_conforms |-> TRUE],
     [kind |-> "text_around_not_conforming_json", parses |-> FALSE, conforms |-> FALSE,
      braces |-> TRUE, inner_parses |-> TRUE, inner_conforms |-> FALSE],
     [kind |-> "text_around_broken_braces", parses |-> FALSE, conforms |-> FALSE,
      braces |-> TRUE, inner_parses |-> FALSE, inner_conforms |-> FALSE]}

\* lines 25-56: is_valid
JSONSchemaValidator_validate(output, expected) ==
    IF expected = None THEN TRUE
    ELSE IF output.parses THEN output.conforms
    ELSE IF output.braces THEN output.inner_parses /\ output.inner_conforms
    ELSE FALSE

\* `if prompt_version.schema_definition:`: None and the empty dict are falsy
SchemaInputs == {None, "{}", "schema"}
SchemaTruthy(schema_definition) == schema_definition \notin {None, "{}"}

\* a judgment is the dict the judge returned: judgment.get("score", 0.0)
JudgmentInputs == {[explanation |-> "e"]} \cup [score : {Score(200), Score(500), One}, explanation : {"e"}]

PartialCredit == Score(300)

\* lines 151-192; judge is whether a judge is configured (self.judge)
_evaluate_dimension(output, judgment, dimension, prompt_version, judge) ==
    IF dimension = "format_adherence" /\ SchemaTruthy(prompt_version.schema_definition)
    THEN IF JSONSchemaValidator_validate(output, prompt_version.schema_definition)
         THEN [score |-> One, method |-> "json_schema"]
         ELSE [score |-> PartialCredit, method |-> "json_schema"]
    ELSE IF judge
         THEN [score |-> Get(judgment, "score"), method |-> "judge"]
         ELSE [score |-> Score(500), method |-> "heuristic"]

(***************************************************************************)
(* SpecScore: _evaluate_dimension on every output, judgment, dimension and *)
(* schema, with and without a judge.                                       *)
(***************************************************************************)
EvaluationDimension == {"correctness", "format_adherence", "verbosity", "safety", "consistency"}

InitScore ==
    /\ arg \in [output : OutputInputs,
                judgment : JudgmentInputs,
                dimension : EvaluationDimension,
                schema_definition : SchemaInputs,
                judge : BOOLEAN]
    /\ versions = <<>>
    /\ experiments = <<>>
    /\ events = <<>>
    /\ ret = [op |-> "init", raised |-> "", logStart |-> 0]
    /\ er = [experiment_id |-> 0]
    /\ dataset = <<>>
    /\ calls = 0
    /\ sess = NoSession
    /\ engine = "none"
    /\ evaluation_results = <<>>

EvaluateDimension ==
    /\ ret.op = "init"
    /\ LET r == _evaluate_dimension(arg.output, arg.judgment, arg.dimension,
                                    [schema_definition |-> arg.schema_definition], arg.judge)
       IN ret' = [op |-> "_evaluate_dimension", raised |-> "", logStart |-> 0,
                  score |-> r.score, method |-> r.method]
    /\ UNCHANGED <<versions, experiments, events, er, dataset, calls, sess, engine, evaluation_results, arg>>

NextScore == EvaluateDimension

SpecScore == InitScore /\ [][NextScore]_vars

\* C16: for format_adherence on a version that declares a schema the score is 1.0
\* when the output is JSON that fits the schema and 0.3 otherwise, non-JSON text
\* included, without the judge; in every other case it is the judge's score when a
\* judge is configured and 0.5 when none is.
C16_ScoringPolicy ==
    ret.op = "_evaluate_dimension" =>
        IF arg.dimension = "format_adherence" /\ arg.schema_definition /= None
        THEN /\ ret.method = "json_schema"
             /\ ret.score = (IF arg.output.parses /\ arg.output.conforms THEN One ELSE Score(300))
        ELSE IF arg.judge
             THEN ret.method = "judge" /\ ret.score = Get(arg.judgment, "score")
             ELSE ret.method = "heuristic" /\ ret.score = Score(500)

(***************************************************************************)
(* SpecRender: render_prompt on every template and set of bound names.     *)
(***************************************************************************)
MaxPlaceholders == 2  \* placeholders of a template

PlaceholderNames == {"text", "tone", "lang"}

TemplateInputs == UNION {[1..n -> PlaceholderNames] : n \in 0..MaxPlaceholders}

InitRender ==
    /\ arg \in [template : TemplateInputs, variables : SUBSET PlaceholderNames]
    /\ versions = <<>>
    /\ experiments = <<>>
    /\ events = <<>>
    /\ ret = [op |-> "init", raised |-> "", logStart |-> 0]
    /\ er = [experiment_id |-> 0]
    /\ dataset = <<>>
    /\ calls = 0
    /\ sess = NoSession
    /\ engine = "none"
    /\ evaluation_results = <<>>

RenderPrompt ==
    /\ ret.op = "init"
    /\ LET r == render_prompt(arg.template, arg.variables)
       IN ret' = [op |-> "render_prompt", raised |-> r.raised, logStart |-> 0,
                  filled |-> r.filled, missing |-> r.missing]
    /\ UNCHANGED <<versions, experiments, events, er, dataset, calls, sess, engine, evaluation_results, arg>>

NextRender == RenderPrompt

SpecRender == InitRender /\ [][NextRender]_vars

UnboundNames == {arg.template[i] : i \in {j \in 1..Len(arg.template) : arg.template[j] \notin arg.variables}}

\* C17: rendering a template with placeholders that have no binding fails with a
\* missing-variable error that names every unbound placeholder, not only the first.
C17_MissingVariablesReportedTogether ==
    ret.op = "render_prompt" =>
        /\ (ret.raised /= "") = (UnboundNames /= {})
        /\ ret.raised /= "" => ret.missing = UnboundNames

(***************************************************************************)
(* Evaluator.evaluate.  What the completion client and the judge answer    *)
(* for a case is an input: answers[i] is [output, judgments], the output   *)
(* generated for case i and the judge's judgment of it on each dimension.  *)
(* A case is [input, critical]: the set of names its input binds.          *)
(***************************************************************************)
PassThreshold_Strict == Score(500) + 1
PassThreshold == Score(500)

\* lines 108-149
_evaluate_case(prompt_version, case, case_index, dimensions, answer, judge) ==
    LET rendered == render_prompt(prompt_version.template, case.input)
        case_scores == [k \in 1..Len(dimensions) |->
                           [dimension |-> dimensions[k],
                            score |-> _evaluate_dimension(answer.output, answer.judgments[dimensions[k]],
                                                          dimensions[k], prompt_version, judge).score]]
    IN IF rendered.raised /= ""
       THEN [raised |-> rendered.raised, case_index |-> case_index, scores |-> <<>>, passed |-> FALSE]
       ELSE [raised |-> "", case_index |-> case_index, scores |-> case_scores,
             passed |-> \A k \in 1..Len(case_scores) : ~(case_scores[k].score < PassThreshold)]

RECURSIVE Flatten(_)
Flatten(seqs) == IF seqs = <<>> THEN <<>> ELSE seqs[1] \o Flatten(Tail(seqs))

\* lines 60-64: the scores appended to dimension_scores[dim], case after case
DimensionScores(per_case_results, dim) ==
    LET entries == SelectSeq(Flatten([i \in 1..Len(per_case_results) |-> per_case_results[i].scores]),
                             LAMBDA e : e.dimension = dim)
    IN [i \in 1..Len(entries) |-> entries[i].score]

\* lines 66-87: one EvaluationScore per dimension that has scores, in the order of dimensions
RECURSIVE EvaluationScores(_, _)
EvaluationScores(per_case_results, dimensions) ==
    IF dimensions = <<>>
    THEN <<>>
    ELSE LET scores == DimensionScores(per_case_results, dimensions[1])
         IN (IF scores /= <<>>
             THEN <<[dimension |-> dimensions[1], score |-> SumSeq(scores) \div Len(scores),
                     per_case_scores |-> scores]>>
             ELSE <<>>) \o EvaluationScores(per_case_results, Tail(dimensions))

\* line 90
AggregateScore(evaluation_scores, dimensions) ==
    IF evaluation_scores /= <<>>
    THEN SumSeq([i \in 1..Len(evaluation_scores) |-> evaluation_scores[i].score]) \div Len(evaluation_scores)
    ELSE 0

\* list(EvaluationDimension): the members in definition order (models.py)
AllDimensions == <<"correctness", "format_adherence", "verbosity", "safety", "consistency">>

\* lines 45-46.  The optional argument is <<>> for None and <<list>> for a list.
Dimensions(optdimensions) == IF optdimensions = <<>> THEN AllDimensions ELSE optdimensions[1]

\* lines 30-106.  saved: the rows save_result added to the session, in order
evaluate(vs, prompt_version_id, ds, optdimensions, answers, judge) ==
    IF get_version(vs, prompt_version_id) = 0
    THEN [raised |-> "ValueError: Prompt version not found", saved |-> <<>>]
    ELSE LET prompt_version == vs[prompt_version_id]
             dimensions == Dimensions(optdimensions)
             per_case_results == [i \in 1..Len(ds.cases) |->
                                     _evaluate_case(prompt_version, ds.cases[i], i, dimensions,
                                                    answers[i], judge)]
             failed == {i \in 1..Len(ds.cases) : per_case_results[i].raised /= ""}
             evaluation_scores == EvaluationScores(per_case_results, dimensions)
             passed_cases == Cardinality({i \in 1..Len(ds.cases) : per_case_results[i].passed})
         IN IF failed /= {}
            THEN [raised |-> per_case_results[CHOOSE i \in failed : \A j \in failed : i <= j].raised,
                  saved |-> <<>>]
            ELSE [raised |-> "",
                  prompt_version_id |-> prompt_version_id,
                  dataset_id |-> ds.dataset_id,
                  scores |-> evaluation_scores,
                  aggregate_score |-> AggregateScore(evaluation_scores, dimensions),
                  total_cases |-> Len(ds.cases),
                  passed_cases |-> passed_cases,
                  failed_cases |-> Len(per_case_results) - passed_cases,
                  per_case_breakdown |-> per_case_results,
                  saved |-> [k \in 1..Len(evaluation_scores) |->
                                [prompt_version_id |-> prompt_version_id,
                                 dataset_id |-> ds.dataset_id,
                                 dimension |-> evaluation_scores[k].dimension,
                                 score |-> evaluation_scores[k].score]]]

\* experimenter.py lines 78-90
_compute_metrics_VacuousPass(evaluation_result) ==
    [k \in {evaluation_result.scores[i].dimension : i \in 1..Len(evaluation_result.scores)}
           \cup {"aggregate", "pass_rate"} |->
        IF k = "aggregate" THEN evaluation_result.aggregate_score
        ELSE IF k = "pass_rate"
             THEN IF evaluation_result.total_cases > 0
                  THEN (evaluation_result.passed_cases * One) \div evaluation_result.total_cases
                  ELSE One
             ELSE evaluation_result.scores[CHOOSE i \in 1..Len(evaluation_result.scores) :
                                               evaluation_result.scores[i].dimension = k].score]
_compute_metrics(evaluation_result) ==
    [k \in {evaluation_result.scores[i].dimension : i \in 1..Len(evaluation_result.scores)}
           \cup {"aggregate", "pass_rate"} |->
        IF k = "aggregate" THEN evaluation_result.aggregate_score
        ELSE IF k = "pass_rate"
             THEN IF evaluation_result.total_cases > 0
                  THEN (evaluation_result.passed_cases * One) \div evaluation_result.total_cases
                  ELSE 0
             ELSE evaluation_result.scores[CHOOSE i \in 1..Len(evaluation_result.scores) :
                                               evaluation_result.scores[i].dimension = k].score]

(***************************************************************************)
(* FailureAnalyzer.analyze_failures (improvement/analyzer.py).  The two    *)
(* defaultdicts are functions on the keys that got a case; patterns,       *)
(* recommendations and sample_failures are derived from them and are not   *)
(* modelled.                                                               *)
(***************************************************************************)
MinScore(scores) ==
    CHOOSE m \in {scores[k].score : k \in 1..Len(scores)} :
        \A k \in 1..Len(scores) : m <= scores[k].score

IsCritical_Inclusive(min_score) == min_score <= Score(300)
IsCritical(min_score) == min_score < Score(300)

\* lines 70-108: the patterns found, in the order they are appended
PatternTypes == <<"format_adherence", "correctness", "verbosity">>
_identify_patterns(failures_by_dimension) ==
    LET Found(type) == type \in DOMAIN failures_by_dimension
        types == SelectSeq(PatternTypes, Found)
    IN [i \in 1..Len(types) |-> [type |-> types[i], count |-> failures_by_dimension[types[i]]]]

\* lines 110-137: a recommendation is its text and the number formatted into it
FormatRecommendation ==
    [text |-> "Add explicit format instructions with examples to improve format adherence", n |-> 0]
CorrectnessRecommendation ==
    [text |-> "Clarify instructions or add few-shot examples to improve correctness", n |-> 0]
CriticalRecommendation(n) == [text |-> "Address {n} critical failures first", n |-> n]
FallbackRecommendation ==
    [text |-> "Review edge cases and add more specific instructions", n |-> 0]
_generate_recommendations(failures_by_dimension, failures_by_score_range, patterns) ==
    LET recommendations ==
            (IF "format_adherence" \in DOMAIN failures_by_dimension
             THEN <<FormatRecommendation>> ELSE <<>>)
            \o (IF "correctness" \in DOMAIN failures_by_dimension
                THEN <<CorrectnessRecommendation>> ELSE <<>>)
            \o (IF "critical" \in DOMAIN failures_by_score_range
                THEN <<CriticalRecommendation(failures_by_score_range["critical"])>> ELSE <<>>)
    IN IF recommendations = <<>> THEN <<FallbackRecommendation>> ELSE recommendations

analyze_failures(evaluation_result) ==
    LET per_case == evaluation_result.per_case_breakdown
        failing == {i \in 1..Len(per_case) : ~per_case[i].passed}
        below(dim) == {i \in failing : \E k \in 1..Len(per_case[i].scores) :
                          /\ per_case[i].scores[k].dimension = dim
                          /\ per_case[i].scores[k].score < Score(500)}
        critical == {i \in failing : IsCritical(MinScore(per_case[i].scores))}
        moderate == {i \in failing \ critical : MinScore(per_case[i].scores) < Score(500)}
        severity == [critical |-> Cardinality(critical), moderate |-> Cardinality(moderate)]
        failures_by_dimension ==
            [dim \in {d \in EvaluationDimension : below(d) /= {}} |-> Cardinality(below(dim))]
        failures_by_score_range ==
            [sev \in {v \in {"critical", "moderate"} : severity[v] > 0} |-> severity[sev]]
        patterns == _identify_patterns(failures_by_dimension)
    IN IF \E i \in failing : per_case[i].scores = <<>>
       THEN [raised |-> "ValueError: min() arg is an empty sequence"]
       ELSE [raised |-> "",
             total_failures |-> Cardinality(failing),
             failures_by_dimension |-> failures_by_dimension,
             failures_by_severity |-> failures_by_score_range,
             patterns |-> patterns,
             recommendations |->
                 _generate_recommendations(failures_by_dimension, failures_by_score_range, patterns)]

(***************************************************************************)
(* SpecEval: one evaluation of a stored version on a dataset, then the     *)
(* failure analysis of its result.  A session that raises is rolled back.  *)
(***************************************************************************)
EvalDimensionInputs ==
    {<<>>, <<<<>>>>, <<<<"correctness">>>>, <<<<"format_adherence">>>>, <<<<"verbosity">>>>,
     <<<<"format_adherence", "correctness">>>>,
     <<<<"correctness", "format_adherence", "correctness">>>>}
EvalOutputs == {o \in OutputInputs : o.kind \in {"json_conforming", "text"}}
EvalJudgments == {j \in JudgmentInputs : "score" \in DOMAIN j /\ j.score /= Score(500)}
EvalCases == [input : {{"text"}, {}}, critical : {FALSE}]
EvalDatasets == [dataset_id : {"d1"}, cases : UNION {[1..n -> EvalCases] : n \in 0..MaxEvalCases}]

DimensionSet(dimensions) == {dimensions[k] : k \in 1..Len(dimensions)}

\* the judge's answers for one case: a judgment per dimension; when all the
\* dimensions are evaluated the judge drawn gives a case one judgment
JudgmentsInputs(optdimensions, judge) ==
    LET dims == DimensionSet(Dimensions(optdimensions)) IN
    IF ~judge THEN {[d \in dims |-> [explanation |-> "e"]]}
    ELSE IF optdimensions = <<>> THEN {[d \in dims |-> j] : j \in EvalJudgments}
    ELSE [dims -> EvalJudgments]

\* without a judge no judgment is ever requested
AnswerInputs(ds, optdimensions, judge) ==
    [1..Len(ds.cases) -> [output : EvalOutputs, judgments : JudgmentsInputs(optdimensions, judge)]]

InitEval ==
    /\ \E schema_definition \in {None, "schema"} :
           versions = create_version(<<>>, "p", <<"text">>, schema_definition, 0, "draft")
    /\ \E ds \in EvalDatasets : dataset = <<ds>>
    /\ experiments = <<>>
    /\ events = <<>>
    /\ ret = [op |-> "init", raised |-> "", logStart |-> 0]
    /\ er = [experiment_id |-> 0]
    /\ calls = 0
    /\ sess = NoSession
    /\ engine = "none"
    /\ evaluation_results = <<>>
    /\ arg = <<>>

Evaluate(prompt_version_id, optdimensions, answers, judge) ==
    /\ ret.op = "init"
    /\ LET r == evaluate(versions, prompt_version_id, dataset[1], optdimensions, answers, judge)
       IN /\ evaluation_results' = evaluation_results \o r.saved
          /\ ret' = [op |-> "evaluate", raised |-> r.raised, logStart |-> 0,
                     prompt_version_id |-> prompt_version_id, response |-> r]
    /\ UNCHANGED <<versions, experiments, events, er, dataset, calls, sess, engine, arg>>

AnalyzeFailures ==
    /\ ret.op = "evaluate"
    /\ ret.raised = ""
    /\ LET a == analyze_failures(ret.response)
       IN ret' = [op |-> "analyze_failures", raised |-> a.raised, logStart |-> 0,
                  evaluation_result |-> ret.response, analysis |-> a]
    /\ UNCHANGED <<versions, experiments, events, er, dataset, calls, sess, engine, evaluation_results, arg>>

ComputeMetrics ==
    /\ ret.op = "evaluate"
    /\ ret.raised = ""
    /\ ret' = [op |-> "_compute_metrics", raised |-> "", logStart |-> 0,
               evaluation_result |-> ret.response, metrics |-> _compute_metrics(ret.response)]
    /\ UNCHANGED <<versions, experiments, events, er, dataset, calls, sess, engine, evaluation_results, arg>>

NextEval ==
    \/ \E v \in 1..2, dims \in EvalDimensionInputs, judge \in BOOLEAN :
           \E answers \in AnswerInputs(dataset[1], dims, judge) : Evaluate(v, dims, answers, judge)
    \/ AnalyzeFailures
    \/ ComputeMetrics

SpecEval == InitEval /\ [][NextEval]_vars

Evaluated == ret.op = "evaluate" /\ ret.raised = ""

CaseScores(c) == {c.scores[k].score : k \in 1..Len(c.scores)}

PassedCases(per_case) == {i \in 1..Len(per_case) : per_case[i].passed}

\* C13: in an evaluation report a case is passed iff every dimension scored
\* for it is >= 0.5 (exactly 0.5 passes); passed_cases counts exactly those
\* cases and failed_cases = total_cases - passed_cases.
C13_PassedIffEveryScoreAtLeastHalf ==
    Evaluated =>
        LET r == ret.response
        IN /\ r.total_cases = Len(r.per_case_breakdown)
           /\ \A i \in 1..Len(r.per_case_breakdown) :
                  r.per_case_breakdown[i].passed
                      <=> \A sc \in CaseScores(r.per_case_breakdown[i]) : sc >= Score(500)
           /\ r.passed_cases = Cardinality(PassedCases(r.per_case_breakdown))
           /\ r.failed_cases = r.total_cases - r.passed_cases

\* a passed case holding a score of exactly 0.5 next to a failed case
C13_Witness ==
    /\ Evaluated
    /\ \E i, j \in 1..Len(ret.response.per_case_breakdown) :
           /\ ret.response.per_case_breakdown[i].passed
           /\ Score(500) \in CaseScores(ret.response.per_case_breakdown[i])
           /\ ~ret.response.per_case_breakdown[j].passed

\* C14: evaluating an existing version on a dataset with 0 cases completes
\* without error and yields aggregate score 0.0, and the experiment metrics
\* computed from it have pass_rate 0.0.
C14_EmptyDatasetScoresZero ==
    /\ (ret.op = "evaluate" /\ ret.prompt_version_id \in 1..Len(versions)
            /\ Len(dataset[1].cases) = 0)
           => /\ ret.raised = ""
              /\ ret.response.total_cases = 0
              /\ ret.response.aggregate_score = 0
    /\ (ret.op = "_compute_metrics" /\ Len(dataset[1].cases) = 0)
           => /\ ret.metrics["pass_rate"] = 0
              /\ ret.metrics["aggregate"] = 0

C14_Witness ==
    /\ ret.op = "_compute_metrics"
    /\ Len(dataset[1].cases) = 0
    /\ ret.evaluation_result.total_cases = 0

\* the cases of a report that produced a score for dimension dim
ScoredCases(per_case, dim) ==
    {i \in 1..Len(per_case) : \E k \in 1..Len(per_case[i].scores) : per_case[i].scores[k].dimension = dim}

ScoreOf(c, dim) == c.scores[CHOOSE k \in 1..Len(c.scores) : c.scores[k].dimension = dim].score

RECURSIVE SumOver(_, _, _)
SumOver(per_case, cases, dim) ==
    IF cases = {} THEN 0
    ELSE LET i == CHOOSE x \in cases : TRUE
         IN ScoreOf(per_case[i], dim) + SumOver(per_case, cases \ {i}, dim)

\* the sum over dims of the score the report gives each dimension
RECURSIVE SumDimensionMeans(_, _)
SumDimensionMeans(scores, dims) ==
    IF dims = {} THEN 0
    ELSE LET d == CHOOSE x \in dims : TRUE
         IN scores[CHOOSE k \in 1..Len(scores) : scores[k].dimension = d].score
                + SumDimensionMeans(scores, dims \ {d})

\* C15: each dimension's score is the arithmetic mean of the scores of the
\* cases that produced a score for that dimension; the overall aggregate is
\* the mean of those per-dimension means over the dimensions with at least
\* one scored case only (a dimension with no scored case is left out).
C15_MeansOverScoredOnly ==
    Evaluated =>
        LET r == ret.response
            reported == {r.scores[k].dimension : k \in 1..Len(r.scores)}
        IN /\ reported = {d \in EvaluationDimension : ScoredCases(r.per_case_breakdown, d) /= {}}
           /\ \A k \in 1..Len(r.scores) :
                  r.scores[k].score * Cardinality(ScoredCases(r.per_case_breakdown, r.scores[k].dimension))
                      = SumOver(r.per_case_breakdown,
                                ScoredCases(r.per_case_breakdown, r.scores[k].dimension),
                                r.scores[k].dimension)
           /\ r.aggregate_score * Cardinality(reported) = SumDimensionMeans(r.scores, reported)
           /\ reported = {} => r.aggregate_score = 0

Analyzed == ret.op = "analyze_failures" /\ ret.raised = ""

FailingCases(per_case) == {i \in 1..Len(per_case) : ~per_case[i].passed}

ExperimentCaseInputs == {{"text"}, {"text", "tone"}}
\* the cases of a dataset bind the same variables
ExperimentDatasets ==
    {[dataset_id |-> "d1", cases |-> [i \in 1..n |-> [input |-> input, critical |-> FALSE]]] :
        n \in 0..MaxEvalCases, input \in ExperimentCaseInputs}

\* an experiment of an earlier run that was promoted since
EarlierExperiments ==
    mark_promoted(create_experiment(<<>>, 1, 2, "d0",
                      [baseline |-> EmptyDatasetMetrics, candidate |-> EmptyDatasetMetrics,
                       delta |-> RunDelta(EmptyDatasetMetrics, EmptyDatasetMetrics,
                                          <<"aggregate", "pass_rate">>)]), 1)

\* set(list(baseline_metrics.keys()) + list(candidate_metrics.keys())) iterates
\* in an order the code does not fix: two orders are drawn
MetricKeyOrder == AllDimensions \o <<"aggregate", "pass_rate">>
DeltaOrders(keys) ==
    LET InKeys(k) == k \in keys
        order == SelectSeq(MetricKeyOrder, InKeys)
    IN {order, [i \in 1..Len(order) |-> order[Len(order) + 1 - i]]}

InitExperiment ==
    /\ versions = create_version(create_version(<<>>, "p", <<"text">>, "schema", 0, "active"),
                                 "p", <<"text", "tone">>, "schema", 1, "experimental")
    /\ \E ds \in ExperimentDatasets : dataset = <<ds>>
    /\ experiments = EarlierExperiments
    /\ events = <<>>
    /\ ret = [op |-> "init", raised |-> "", logStart |-> 0]
    /\ er = [experiment_id |-> 0]
    /\ calls = 0
    /\ sess = [pc |-> "idle"]
    /\ engine = "none"
    /\ evaluation_results = <<>>
    /\ arg = <<>>

\* line 23: the call is entered
RunExperimentBegin(baseline_version_id, candidate_version_id, judge) ==
    /\ ret.op = "init"
    /\ sess' = [pc |-> "baseline", baseline_version_id |-> baseline_version_id,
                candidate_version_id |-> candidate_version_id, judge |-> judge, flushed |-> 0]
    /\ ret' = [op |-> "running", raised |-> "", logStart |-> 0]
    /\ UNCHANGED <<versions, experiments, events, er, dataset, calls, engine, evaluation_results, arg>>

\* the exception leaves run_experiment and the session is rolled back
RaiseFromRun(raised) ==
    /\ sess' = [pc |-> "idle"]
    /\ evaluation_results' = SubSeq(evaluation_results, 1, Len(evaluation_results) - sess.flushed)
    /\ ret' = [op |-> "run_experiment", raised |-> raised, logStart |-> 0]

\* lines 35-38
EvaluateBaseline(answers) ==
    /\ sess.pc = "baseline"
    /\ LET r == evaluate(versions, sess.baseline_version_id, dataset[1], <<>>, answers, sess.judge)
       IN IF r.raised /= ""
          THEN RaiseFromRun(r.raised)
          ELSE /\ sess' = [pc |-> "candidate", baseline_version_id |-> sess.baseline_version_id,
                           candidate_version_id |-> sess.candidate_version_id, judge |-> sess.judge,
                           flushed |-> sess.flushed + Len(r.saved), baseline_result |-> r]
               /\ evaluation_results' = evaluation_results \o r.saved
               /\ UNCHANGED ret
    /\ UNCHANGED <<versions, experiments, events, er, dataset, calls, engine, arg>>

\* lines 40-43
EvaluateCandidate(answers) ==
    /\ sess.pc = "candidate"
    /\ LET r == evaluate(versions, sess.candidate_version_id, dataset[1], <<>>, answers, sess.judge)
       IN IF r.raised /= ""
          THEN RaiseFromRun(r.raised)
          ELSE /\ sess' = [pc |-> "metrics", baseline_version_id |-> sess.baseline_version_id,
                           candidate_version_id |-> sess.candidate_version_id, judge |-> sess.judge,
                           flushed |-> sess.flushed + Len(r.saved),
                           baseline_result |-> sess.baseline_result, candidate_result |-> r]
               /\ evaluation_results' = evaluation_results \o r.saved
               /\ UNCHANGED ret
    /\ UNCHANGED <<versions, experiments, events, er, dataset, calls, engine, arg>>

\* lines 45-76: metrics, deltas, the experiment record and the result
ReturnExperiment ==
    /\ sess.pc = "metrics"
    /\ LET baseline_metrics == _compute_metrics(sess.baseline_result)
           candidate_metrics == _compute_metrics(sess.candidate_result)
       IN \E order \in DeltaOrders(DOMAIN baseline_metrics \cup DOMAIN candidate_metrics) :
           /\ experiments' = create_experiment(experiments, sess.baseline_version_id,
                                 sess.candidate_version_id, dataset[1].dataset_id,
                                 [baseline |-> baseline_metrics,
                                  candidate |-> candidate_metrics,
                                  delta |-> RunDelta(baseline_metrics, candidate_metrics, order)])
           /\ ret' = [op |-> "run_experiment", raised |-> "", logStart |-> 0,
                      result |-> ExperimentResultOf(experiments', Len(experiments')),
                      baseline_result |-> sess.baseline_result,
                      candidate_result |-> sess.candidate_result]
    /\ sess' = [pc |-> "idle"]
    /\ UNCHANGED <<versions, events, er, dataset, calls, engine, evaluation_results, arg>>

NextExperiment ==
    \/ \E b, c \in 1..(Len(versions) + 1), judge \in BOOLEAN : RunExperimentBegin(b, c, judge)
    \/ /\ sess.pc = "baseline"
       /\ \E answers \in AnswerInputs(dataset[1], <<>>, sess.judge) : EvaluateBaseline(answers)
    \/ /\ sess.pc = "candidate"
       /\ \E answers \in AnswerInputs(dataset[1], <<>>, sess.judge) : EvaluateCandidate(answers)
    \/ ReturnExperiment

SpecExperiment == InitExperiment /\ [][NextExperiment]_vars

Returned == ret.op = "run_experiment" /\ ret.raised = ""

ReportDimensions(report) == {report.scores[k].dimension : k \in 1..Len(report.scores)}

\* the metrics of one side against the evaluation report they were computed from
SideMetricsOf(metrics, report) ==
    /\ DOMAIN metrics = ReportDimensions(report) \cup {"aggregate", "pass_rate"}
    /\ \A k \in 1..Len(report.scores) : metrics[report.scores[k].dimension] = report.scores[k].score
    /\ metrics["aggregate"] = report.aggregate_score
    /\ report.total_cases > 0 => metrics["pass_rate"] * report.total_cases = report.passed_cases * One
    /\ report.total_cases = 0 => metrics["pass_rate"] = 0

\* C18: run_experiment computes improvement_delta over the union of the
\* metric keys of baseline and candidate, delta[key] = candidate[key] -
\* baseline[key] with a key absent on one side counted as 0.0 on that side
\* only; each side's metrics hold every evaluated dimension's score,
\* aggregate and pass_rate = passed/total.
C18_DeltaOverUnionOfKeys ==
    Returned =>
        LET b == ret.result.baseline_metrics
            c == ret.result.candidate_metrics
            delta == ret.result.improvement_delta
        IN /\ {delta[i][1] : i \in 1..Len(delta)} = DOMAIN b \cup DOMAIN c
           /\ Len(delta) = Cardinality(DOMAIN b \cup DOMAIN c)
           /\ \A i \in 1..Len(delta) :
                  delta[i][2] = (IF delta[i][1] \in DOMAIN c THEN c[delta[i][1]] ELSE 0)
                                - (IF delta[i][1] \in DOMAIN b THEN b[delta[i][1]] ELSE 0)
           /\ SideMetricsOf(b, ret.baseline_result)
           /\ SideMetricsOf(c, ret.candidate_result)
           /\ experiments[ret.result.experiment_id].metrics
                  = [baseline |-> b, candidate |-> c, delta |-> delta]

\* a run whose candidate gained on one metric and lost on another
C18_Witness ==
    /\ Returned
    /\ ret.baseline_result.total_cases > 0
    /\ \E i, j \in 1..Len(ret.result.improvement_delta) :
           /\ ret.result.improvement_delta[i][2] > 0
           /\ ret.result.improvement_delta[j][2] < 0
           /\ ret.result.improvement_delta[j][1] = "pass_rate"

\* C19: run_experiment evaluates the baseline completely before it starts
\* evaluating the candidate, then persists exactly one experiment record
\* (promoted = false) for the run; it never changes a version's status and
\* never sets an experiment's promoted flag; if either evaluation fails no
\* experiment record is created.
C19_BaselineThenCandidateThenOneRecord ==
    [][/\ versions' = versions
       /\ Len(experiments') >= Len(experiments)
       /\ SubSeq(experiments', 1, Len(experiments)) = experiments
       /\ sess'.pc = "candidate" =>
              /\ sess.pc = "baseline"
              /\ sess'.baseline_result.raised = ""
              /\ Len(sess'.baseline_result.per_case_breakdown) = Len(dataset[1].cases)
              /\ evaluation_results' = sess'.baseline_result.saved
       /\ sess'.pc = "metrics" =>
              /\ sess.pc = "candidate"
              /\ sess'.baseline_result = sess.baseline_result
              /\ evaluation_results' = sess.baseline_result.saved \o sess'.candidate_result.saved
       /\ (ret'.op = "run_experiment" /\ ret.op /= "run_experiment") =>
              IF ret'.raised = ""
              THEN /\ sess.pc = "metrics"
                   /\ Len(experiments') = Len(experiments) + 1
                   /\ experiments'[Len(experiments')].promoted = FALSE
                   /\ experiments'[Len(experiments')].baseline_version_id = sess.baseline_version_id
                   /\ experiments'[Len(experiments')].candidate_version_id = sess.candidate_version_id
              ELSE /\ experiments' = experiments
                   /\ evaluation_results' = <<>>
       /\ ~(ret'.op = "run_experiment" /\ ret.op /= "run_experiment") => experiments' = experiments
      ]_vars

\* a finished run next to an earlier, promoted experiment
C19_Witness ==
    /\ Returned
    /\ Len(experiments) = 2
    /\ experiments[1].promoted
    /\ ~experiments[2].promoted
    /\ versions[1].status = "active"
    /\ Len(evaluation_results) > 0

\* C21: the recommendations of analyze_failures hold one fixed
\* recommendation for each triggered pattern (format_adherence, correctness,
\* verbosity, each triggered by a failure in that dimension), the
\* address-critical-failures-first recommendation exactly when a critical
\* failure exists, and the generic fallback exactly when no pattern triggered.
C21_RecommendationPerPattern ==
    Analyzed =>
        LET a == ret.analysis
            triggered == {a.patterns[i].type : i \in 1..Len(a.patterns)}
            given == {a.recommendations[i].text : i \in 1..Len(a.recommendations)}
            critical == Get(a.failures_by_severity, "critical")
        IN /\ triggered = {t \in DimensionSet(PatternTypes) : Get(a.failures_by_dimension, t) > 0}
           /\ FormatRecommendation.text \in given <=> "format_adherence" \in triggered
           /\ CorrectnessRecommendation.text \in given <=> "correctness" \in triggered
           /\ CriticalRecommendation(critical).text \in given <=> critical > 0
           /\ FallbackRecommendation.text \in given <=> triggered = {}
           /\ Len(a.recommendations) = Cardinality(triggered)
                                       + (IF critical > 0 THEN 1 ELSE 0)
                                       + (IF triggered = {} THEN 1 ELSE 0)

(***************************************************************************)
(* The judge's inputs.  A case's optional context is <<>> for None and     *)
(* <<dict>> for a dict, the dict a function on its keys.                   *)
(***************************************************************************)
IdentifyingKeys == {"prompt_version_id", "prompt_id", "version", "template", "prompt_template"}

\* blinded_evaluator.py lines 114-126
_create_anonymous_context(context) ==
    IF context = <<>> \/ DOMAIN context[1] = {}
    THEN <<>>
    ELSE LET anonymous == [k \in DOMAIN context[1] \ IdentifyingKeys |-> context[1][k]]
         IN IF DOMAIN anonymous = {} THEN <<>> ELSE <<anonymous>>

\* judge.py lines 77-101: the parts of the evaluation prompt; an empty dict,
\* like None, adds no context part
_build_evaluation_prompt(output, expected, rubric, dimension, context) ==
    [context |-> IF context = <<>> \/ DOMAIN context[1] = {} THEN <<>> ELSE context,
     expected |-> expected,
     rubric |-> rubric,
     output |-> output,
     dimension |-> dimension]

\* evaluator.py lines 160-180: the prompts Evaluator._evaluate_dimension has
\* the judge complete, none when the validator or the heuristic scores
JudgeRequests(output, case, dimension, prompt_version, judge) ==
    IF dimension = "format_adherence" /\ SchemaTruthy(prompt_version.schema_definition)
    THEN <<>>
    ELSE IF judge
         THEN <<_build_evaluation_prompt(output, case.expected_output, case.rubric,
                                         dimension, case.context)>>
         ELSE <<>>

(***************************************************************************)
(* SpecBlind: _evaluate_dimension on one case of one of two stored         *)
(* versions; the case's context may carry the version's identity.          *)
(***************************************************************************)
BlindVersions ==
    create_version(create_version(create_version(<<>>, "p", <<"text">>, None, 0, "active"),
                                  "p", <<"text", "tone">>, None, 1, "experimental"),
                   "q", <<"text">>, "schema", 0, "draft")

ContextKeyInputs == {"prompt_version_id", "template", "topic"}
ContextValue(k, version_id) ==
    CASE k = "prompt_version_id" -> version_id
      [] k = "template" -> BlindVersions[version_id].template
      [] OTHER -> "weather"
ContextInputs(version_id) ==
    {<<>>} \cup {<<[k \in K |-> ContextValue(k, version_id)]>> : K \in SUBSET ContextKeyInputs}

BlindInputs ==
    UNION {[output : EvalOutputs,
            case : [expected_output : {None, "sunny"}, rubric : {None}, context : ContextInputs(v)],
            dimension : {"correctness", "format_adherence"},
            prompt_version_id : {v},
            judge : BOOLEAN] : v \in DOMAIN BlindVersions}

InitBlind ==
    /\ arg \in BlindInputs
    /\ versions = BlindVersions
    /\ experiments = <<>>
    /\ events = <<>>
    /\ ret = [op |-> "init", raised |-> "", logStart |-> 0]
    /\ er = [experiment_id |-> 0]
    /\ dataset = <<>>
    /\ calls = 0
    /\ sess = NoSession
    /\ engine = "none"
    /\ evaluation_results = <<>>

JudgeRequestsOf(a) ==
    JudgeRequests(a.output, a.case, a.dimension, BlindVersions[a.prompt_version_id], a.judge)

EvaluateDimensionBlind ==
    /\ ret.op = "init"
    /\ ret' = [op |-> "_evaluate_dimension", raised |-> "", logStart |-> 0,
               judge_requests |-> JudgeRequestsOf(arg)]
    /\ UNCHANGED <<versions, experiments, events, er, dataset, calls, sess, engine, evaluation_results, arg>>

NextBlind == EvaluateDimensionBlind

SpecBlind == InitBlind /\ [][NextBlind]_vars

\* two calls that differ only in the version and in identifying context
DifferOnlyInIdentity(a, b) ==
    /\ a.output = b.output
    /\ a.dimension = b.dimension
    /\ a.judge = b.judge
    /\ a.case.expected_output = b.case.expected_output
    /\ a.case.rubric = b.case.rubric
    /\ BlindVersions[a.prompt_version_id].schema_definition = BlindVersions[b.prompt_version_id].schema_definition
    /\ _create_anonymous_context(a.case.context) = _create_anonymous_context(b.case.context)

\* C22: during evaluation the judge never receives version-identifying data:
\* a case context forwarded to the judge has the keys prompt_version_id,
\* prompt_id, version, template and prompt_template removed, and two
\* evaluations that differ only in such identifying context give the judge
\* identical inputs.
C22_JudgeNeverSeesVersionIdentity ==
    ret.op = "_evaluate_dimension" =>
        /\ \A i \in 1..Len(ret.judge_requests) :
               /\ ret.judge_requests[i].context = _create_anonymous_context(arg.case.context)
               /\ ret.judge_requests[i].context /= <<>>
                      => DOMAIN ret.judge_requests[i].context[1] \cap IdentifyingKeys = {}
        /\ \A b \in BlindInputs :
               DifferOnlyInIdentity(arg, b) => JudgeRequestsOf(b) = ret.judge_requests

(***************************************************************************)
(* EvaluationStorage with the created_at column.  The column's default     *)
(* (models.py line 40, datetime.utcnow) is read when a row is flushed, and *)
(* save_result flushes every row on its own: the rows of one run are       *)
(* stamped one after the other by a clock that may or may not have moved.  *)
(***************************************************************************)
MaxLatestRuns == 2

\* evaluation_storage.py lines 16-35, one call per saved row
save_results(rows, saved, stamps) ==
    rows \o [i \in 1..Len(saved) |->
                [prompt_version_id |-> saved[i].prompt_version_id,
                 dataset_id |-> saved[i].dataset_id,
                 dimension |-> saved[i].dimension,
                 score |-> saved[i].score,
                 created_at |-> stamps[i]]]

\* the time of the last flush, 1 before any
LatestTime(rows) ==
    IF rows = <<>> THEN 1 ELSE rows[Len(rows)].created_at

\* the clock readings of Len(saved) flushes in a row: it never goes back and
\* moves at most one step between two flushes
StampInputs(rows, n) ==
    {st \in [1..n -> LatestTime(rows)..(LatestTime(rows) + n)] :
        \A i \in 1..n : st[i] - (IF i = 1 THEN LatestTime(rows) ELSE st[i - 1]) \in {0, 1}}

\* lines 72-96: the dicts {r.dimension: r for r in results} the call can return;
\* the query has no ORDER BY, so of two rows of one dimension either may stay
get_latest_results(rows, prompt_version_id, dataset_id) ==
    LET mine == {i \in 1..Len(rows) : /\ rows[i].prompt_version_id = prompt_version_id
                                      /\ rows[i].dataset_id = dataset_id}
        \* func.max over no row is NULL
        latest_time == IF mine = {} THEN 0
                       ELSE CHOOSE t \in {rows[i].created_at : i \in mine} :
                                \A i \in mine : rows[i].created_at <= t
        results == {i \in mine : rows[i].created_at = latest_time}
        dims == {rows[i].dimension : i \in results}
    IN IF latest_time = 0
       THEN {<<>>}
       ELSE {[d \in dims |-> rows[f[d]]] :
                f \in {g \in [dims -> results] : \A d \in dims : rows[g[d]].dimension = d}}

LatestDimensionInputs == {<<<<"correctness">>>>, <<<<"format_adherence", "correctness">>>>}

\* arg[v] is the list of rows the most recent evaluation of version v saved
InitLatest ==
    /\ versions = create_version(create_version(<<>>, "p", <<"text">>, None, 0, "active"),
                                 "p", <<"text">>, None, 1, "experimental")
    /\ dataset = <<[dataset_id |-> "d1", cases |-> <<[input |-> {"text"}, critical |-> FALSE]>>]>>
    /\ experiments = <<>>
    /\ events = <<>>
    /\ ret = [op |-> "init", raised |-> "", logStart |-> 0]
    /\ er = [experiment_id |-> 0]
    /\ calls = 0
    /\ sess = NoSession
    /\ engine = "none"
    /\ evaluation_results = <<>>
    /\ arg = [v \in 1..2 |-> <<>>]

EvaluateAndSave(prompt_version_id, optdimensions, answers, judge) ==
    /\ calls < MaxLatestRuns
    /\ calls' = calls + 1
    /\ LET r == evaluate(versions, prompt_version_id, dataset[1], optdimensions, answers, judge)
       IN \E stamps \in StampInputs(evaluation_results, Len(r.saved)) :
           /\ evaluation_results' = save_results(evaluation_results, r.saved, stamps)
           /\ arg' = [arg EXCEPT ![prompt_version_id] =
                         SubSeq(evaluation_results', Len(evaluation_results) + 1, Len(evaluation_results'))]
           /\ ret' = [op |-> "evaluate", raised |-> r.raised, logStart |-> 0]
    /\ UNCHANGED <<versions, experiments, events, er, dataset, sess, engine>>

GetLatestResults(prompt_version_id, dataset_id) ==
    /\ \E results \in get_latest_results(evaluation_results, prompt_version_id, dataset_id) :
           ret' = [op |-> "get_latest_results", raised |-> "", logStart |-> 0,
                   prompt_version_id |-> prompt_version_id, dataset_id |-> dataset_id,
                   results |-> results]
    /\ UNCHANGED <<versions, experiments, events, er, dataset, calls, sess, engine, evaluation_results, arg>>

NextLatest ==
    \/ \E v \in 1..2, dims \in LatestDimensionInputs, judge \in BOOLEAN :
           \E answers \in AnswerInputs(dataset[1], dims, judge) : EvaluateAndSave(v, dims, answers, judge)
    \/ \E v \in 1..2 : GetLatestResults(v, "d1")

SpecLatest == InitLatest /\ [][NextLatest]_vars

\* C23: after any sequence of evaluate calls for one (version, dataset),
\* get_latest_results returns the result rows of the most recent evaluation
\* run, one per dimension evaluated in that run, and no row of an earlier run.
C23_LatestResultsAreTheLastRun ==
    (ret.op = "get_latest_results" /\ ret.dataset_id = "d1") =>
        LET last == arg[ret.prompt_version_id]
        IN /\ DOMAIN ret.results = {last[i].dimension : i \in 1..Len(last)}
           /\ \A i \in 1..Len(last) : ret.results[last[i].dimension] = last[i]

(***************************************************************************)
(* ImprovementGenerator.generate_candidates (improvement/generator.py).    *)
(* The optional max_candidates is <<>> for None and <<n>> for an int; the  *)
(* model's answer is the list under "candidates" of its JSON response.     *)
(***************************************************************************)
max_candidates_per_iteration == 5
MaxModelCandidates == 3

\* seq[:n] of Python, n of either sign
Slice(seq, n) ==
    IF n >= 0
    THEN SubSeq(seq, 1, IF n < Len(seq) THEN n ELSE Len(seq))
    ELSE SubSeq(seq, 1, IF Len(seq) + n > 0 THEN Len(seq) + n ELSE 0)

\* lines 13-47: "max_candidates or settings.max_candidates_per_iteration"
\* takes the setting for None and for 0
generate_candidates(candidates, max_candidates) ==
    LET effective == IF max_candidates = <<>> \/ max_candidates[1] = 0
                     THEN max_candidates_per_iteration
                     ELSE max_candidates[1]
    IN Slice(candidates, effective)

CandidateTemplates == {"shorter", "examples"}
ModelCandidateInputs == UNION {[1..n -> CandidateTemplates] : n \in 0..MaxModelCandidates}
MaxCandidatesInputs == {<<>>} \cup {<<n>> : n \in -1..(MaxModelCandidates + 1)}

InitGenerate ==
    /\ arg \in [candidates : ModelCandidateInputs, max_candidates : MaxCandidatesInputs]
    /\ versions = <<>>
    /\ experiments = <<>>
    /\ events = <<>>
    /\ ret = [op |-> "init", raised |-> "", logStart |-> 0]
    /\ er = [experiment_id |-> 0]
    /\ dataset = <<>>
    /\ calls = 0
    /\ sess = NoSession
    /\ engine = "none"
    /\ evaluation_results = <<>>

GenerateCandidates ==
    /\ ret.op = "init"
    /\ ret' = [op |-> "generate_candidates", raised |-> "", logStart |-> 0,
               candidates |-> generate_candidates(arg.candidates, arg.max_candidates)]
    /\ UNCHANGED <<versions, experiments, events, er, dataset, calls, sess, engine, evaluation_results, arg>>

NextGenerate == GenerateCandidates

SpecGenerate == InitGenerate /\ [][NextGenerate]_vars

\* C24: for every max_candidates value the caller passes (a count, so not
\* negative), generate_candidates returns at most max_candidates candidates,
\* the first ones of the model's list in the model's order, even when the
\* model returns more.
C24_AtMostMaxCandidates ==
    (ret.op = "generate_candidates" /\ arg.max_candidates /= <<>> /\ arg.max_candidates[1] >= 0) =>
        /\ Len(ret.candidates) <= arg.max_candidates[1]
        /\ Len(ret.candidates) <= Len(arg.candidates)
        /\ ret.candidates = SubSeq(arg.candidates, 1, Len(ret.candidates))

(***************************************************************************)
(* PromptStorage.get_lineage (storage/prompt_storage.py lines 114-130).    *)
(* A lineage is the list of the rows' ids.                                 *)
(***************************************************************************)
MaxLineageVersions == 3

Reversed(seq) == [i \in 1..Len(seq) |-> seq[Len(seq) + 1 - i]]

\* lines 120-128: the loop, from the version up; a parent that is not stored
\* ends it
RECURSIVE LineageUp(_, _)
LineageUp(vs, current) ==
    IF vs[current].parent_version_id /= 0
    THEN IF get_version(vs, vs[current].parent_version_id) /= 0
         THEN <<current>> \o LineageUp(vs, vs[current].parent_version_id)
         ELSE <<current>>
    ELSE <<current>>

get_lineage_LeafFirst(vs, version_id) ==
    IF get_version(vs, version_id) = 0 THEN <<>> ELSE LineageUp(vs, version_id)
get_lineage(vs, version_id) ==
    IF get_version(vs, version_id) = 0 THEN <<>> ELSE Reversed(LineageUp(vs, version_id))

InitLineage == Init

GetLineage(version_id) ==
    /\ ret' = [op |-> "get_lineage", raised |-> "", logStart |-> Len(events),
               version_id |-> version_id, lineage |-> get_lineage(versions, version_id)]
    /\ UNCHANGED <<versions, experiments, events, er, dataset, calls, sess, engine, evaluation_results, arg>>

NextLineage ==
    \/ /\ Len(versions) < MaxLineageVersions
       /\ UNCHANGED calls
       /\ \E p \in PromptIds, parent \in 0..Len(versions), st \in CreateStatuses :
              CreateVersion(p, parent, st)
    \/ \E v \in VersionIdInputs : GetLineage(v)

SpecLineage == InitLineage /\ [][NextLineage]_vars

\* C25: get_lineage(v) returns v's parent chain in root-to-leaf order ending
\* with v, each element the parent of the next one (for C with parent B with
\* parent A the result is [A, B, C]); for an unknown version id it returns
\* the empty list.
C25_LineageRootToLeaf ==
    ret.op = "get_lineage" =>
        IF ret.version_id \notin DOMAIN versions
        THEN ret.lineage = <<>>
        ELSE /\ Len(ret.lineage) >= 1
             /\ ret.lineage[Len(ret.lineage)] = ret.version_id
             /\ versions[ret.lineage[1]].parent_version_id = 0
             /\ \A i \in 1..(Len(ret.lineage) - 1) :
                    versions[ret.lineage[i + 1]].parent_version_id = ret.lineage[i]

\* the lineage [A, B, C] of the scenario
C25_Witness ==
    /\ ret.op = "get_lineage"
    /\ ret.lineage = <<1, 2, 3>>
    /\ versions[3].parent_version_id = 2
    /\ versions[2].parent_version_id = 1

(***************************************************************************)
(* POST /self-improve/{version_id} (api/improvement.py self_improve).  As  *)
(* in RunExperiment, an evaluation is drawn as the metrics it produced:    *)
(* evs[i] holds the metrics of the experiment of the i-th candidate the    *)
(* generator returned.                                                     *)
(***************************************************************************)
MaxSelfCandidates == 2

SelfImproveEvaluations ==
    {[dataset_id |-> "d0", baseline |-> EmptyDatasetMetrics, candidate |-> EmptyDatasetMetrics,
      order |-> <<"aggregate", "pass_rate">>],
     [dataset_id |-> "d1",
      baseline |-> [format_adherence |-> 990, aggregate |-> 800, pass_rate |-> 1000],
      candidate |-> [format_adherence |-> 990, aggregate |-> 900, pass_rate |-> 1000],
      order |-> <<"format_adherence", "aggregate", "pass_rate">>],
     [dataset_id |-> "d1",
      baseline |-> [format_adherence |-> 990, aggregate |-> 940, pass_rate |-> 1000],
      candidate |-> [format_adherence |-> 990, aggregate |-> 950, pass_rate |-> 1000],
      order |-> <<"format_adherence", "aggregate", "pass_rate">>],
     [dataset_id |-> "d1",
      baseline |-> [format_adherence |-> 990, aggregate |-> 800, pass_rate |-> 1000],
      candidate |-> [format_adherence |-> 900, aggregate |-> 950, pass_rate |-> 1000],
      order |-> <<"aggregate", "format_adherence", "pass_rate">>],
     [dataset_id |-> "d1",
      baseline |-> [format_adherence |-> 990, aggregate |-> 850, pass_rate |-> 1000],
      candidate |-> [format_adherence |-> 990, aggregate |-> 990, pass_rate |-> 1000],
      order |-> <<"pass_rate", "format_adherence", "aggregate">>]}

SelfImproveDataset == <<[dataset_id |-> "d1", cases |-> <<[critical |-> TRUE]>>]>>

\* lines 230-260: one pass of the loop over the candidates.  st is the tables,
\* the audit log and experiment_results as the loop has left them so far.
RECURSIVE SelfImproveLoop(_, _, _, _)
SelfImproveLoop(st, version_id, evs, i) ==
    IF i > Len(evs) THEN st
    ELSE LET vs2 == create_version(st.versions, st.versions[version_id].prompt_id, "t",
                                   st.versions[version_id].schema_definition, version_id,
                                   "experimental")
             candidate_version_id == Len(vs2)
             es2 == create_experiment(st.experiments, version_id, candidate_version_id,
                                      evs[i].dataset_id,
                                      [baseline |-> evs[i].baseline,
                                       candidate |-> evs[i].candidate,
                                       delta |-> RunDelta(evs[i].baseline, evs[i].candidate,
                                                          evs[i].order)])
             experiment_result == ExperimentResultOf(es2, Len(es2))
             decision == should_promote(st.events, experiment_result, SelfImproveDataset)
         IN SelfImproveLoop(
                [versions |-> vs2,
                 experiments |-> es2,
                 events |-> decision.log,
                 experiment_results |->
                     Append(st.experiment_results,
                            [candidate_version_id |-> candidate_version_id,
                             experiment_id |-> Len(es2),
                             aggregate |-> Get(experiment_result.candidate_metrics, "aggregate"),
                             should_promote |-> decision.decision])],
                version_id, evs, i + 1)

\* lines 266-269: max(experiment_results, key=aggregate), the first of the
\* largest
BestCandidate_AmongPassing(experiment_results) ==
    LET passing == {i \in 1..Len(experiment_results) : experiment_results[i].should_promote}
        pool == IF passing = {} THEN 1..Len(experiment_results) ELSE passing
    IN CHOOSE i \in pool :
           /\ \A j \in pool : experiment_results[j].aggregate <= experiment_results[i].aggregate
           /\ \A j \in pool : j < i => experiment_results[j].aggregate < experiment_results[i].aggregate
BestCandidate(experiment_results) ==
    CHOOSE i \in 1..Len(experiment_results) :
        /\ \A j \in 1..Len(experiment_results) :
               experiment_results[j].aggregate <= experiment_results[i].aggregate
        /\ \A j \in 1..(i - 1) : experiment_results[j].aggregate < experiment_results[i].aggregate

InitSelfImprove ==
    /\ versions \in {create_version(<<>>, "p", "t", None, 0, "draft"),
                     promote_version(create_version(<<>>, "p", "t", None, 0, "draft"), 1),
                     promote_version(create_version(create_version(<<>>, "p", "t", None, 0, "draft"),
                                                    "p", "t", None, 1, "experimental"), 1)}
    /\ experiments = <<>>
    /\ events = <<>>
    /\ ret = [op |-> "init", raised |-> "", logStart |-> 0]
    /\ er = [experiment_id |-> 0]
    /\ dataset = SelfImproveDataset
    /\ calls = 0
    /\ sess = NoSession
    /\ engine = "none"
    /\ evaluation_results = <<>>
    /\ arg = <<>>

SelfImprove(version_id, auto_promote, evs) ==
    /\ ret.op = "init"
    /\ IF get_version(versions, version_id) = 0
       THEN /\ ret' = [op |-> "self_improve", raised |-> "HTTPException: 404", logStart |-> Len(events),
                       auto_promote |-> auto_promote, experiment_results |-> <<>>,
                       promoted_version_id |-> 0]
            /\ UNCHANGED <<versions, experiments, events>>
       ELSE LET st == SelfImproveLoop([versions |-> versions, experiments |-> experiments,
                                       events |-> events, experiment_results |-> <<>>],
                                      version_id, evs, 1)
            IN IF auto_promote /\ st.experiment_results = <<>>
               THEN \* max() of an empty list raises: the session rolls back
                    /\ ret' = [op |-> "self_improve",
                               raised |-> "ValueError: max() arg is an empty sequence",
                               logStart |-> Len(events), auto_promote |-> auto_promote,
                               experiment_results |-> <<>>, promoted_version_id |-> 0]
                    /\ events' = st.events
                    /\ UNCHANGED <<versions, experiments>>
               ELSE IF auto_promote
                       /\ st.experiment_results[BestCandidate(st.experiment_results)].should_promote
               THEN LET best == st.experiment_results[BestCandidate(st.experiment_results)]
                    IN /\ events' = log_prompt_change(st.events, version_id,
                                        best.candidate_version_id,
                                        ChangeSummary(None, best.experiment_id),
                                        st.experiments[best.experiment_id].metrics.delta)
                       /\ experiments' = mark_promoted(st.experiments, best.experiment_id)
                       /\ versions' = promote_version(st.versions, best.candidate_version_id)
                       /\ ret' = [op |-> "self_improve", raised |-> "", logStart |-> Len(events),
                                  auto_promote |-> auto_promote,
                                  experiment_results |-> st.experiment_results,
                                  promoted_version_id |-> best.candidate_version_id]
               ELSE /\ events' = st.events
                    /\ experiments' = st.experiments
                    /\ versions' = st.versions
                    /\ ret' = [op |-> "self_improve", raised |-> "", logStart |-> Len(events),
                               auto_promote |-> auto_promote,
                               experiment_results |-> st.experiment_results,
                               promoted_version_id |-> 0]
    /\ UNCHANGED <<er, dataset, calls, sess, engine, evaluation_results, arg>>

NextSelfImprove ==
    \E v \in VersionIdInputs, auto_promote \in BOOLEAN,
       evs \in UNION {[1..n -> SelfImproveEvaluations] : n \in 0..MaxSelfCandidates} :
        SelfImprove(v, auto_promote, evs)

SpecSelfImprove == InitSelfImprove /\ [][NextSelfImprove]_vars

\* the versions a step made active
NewlyActive(before, after) ==
    {v \in DOMAIN after : /\ after[v].status = "active"
                          /\ (v \notin DOMAIN before \/ before[v].status /= "active")}

C27_PromoteVersionTouchesOnlyItsPrompt ==
    [][ret'.op = "promote_version" =>
           LET v == ret'.version_id IN
           IF v \notin DOMAIN versions
           THEN ret'.raised /= "" /\ versions' = versions
           ELSE /\ ret'.raised = ""
                /\ DOMAIN versions' = DOMAIN versions
                /\ versions'[v] = [versions[v] EXCEPT !.status = versions'[v].status,
                                                      !.promoted_at = versions'[v].promoted_at]
                /\ \A i \in DOMAIN versions \ {v} :
                       IF versions[i].prompt_id = versions[v].prompt_id
                          /\ versions[i].status = "active"
                       THEN versions'[i] = [versions[i] EXCEPT !.status = versions'[i].status]
                       ELSE versions'[i] = versions[i]
      ]_vars

\* promote_version has made a version active while another prompt keeps an
\* active version of its own
C27_Witness ==
    /\ ret.op = "promote_version"
    /\ ret.raised = ""
    /\ versions[ret.version_id].status = "active"
    /\ \E i \in DOMAIN versions :
           /\ versions[i].prompt_id /= versions[ret.version_id].prompt_id
           /\ versions[i].status = "active"

\* C28: PromptPromoter.promote is all-or-nothing: whenever it raises (the
\* experiment is missing, or candidate_version_id names no stored version) it
\* has appended no prompt_promoted audit event and has not set the
\* experiment's promoted flag; whenever it returns, the version it logged as
\* promoted is the active version of its prompt_id.
C28_PromoteAllOrNothing ==
    [][PromoteStep =>
           IF ret'.raised /= ""
           THEN /\ \A i \in (Len(events) + 1)..Len(events') :
                       events'[i].event_type /= "prompt_promoted"
                /\ experiments' = experiments
           ELSE /\ Len(events') = Len(events) + 1
                /\ events'[Len(events')].event_type = "prompt_promoted"
                /\ events'[Len(events')].details.to_version_id = ret'.version_id
                /\ get_active_version(versions', versions'[ret'.version_id].prompt_id)
                       = {ret'.version_id}
      ]_vars

GuardrailEventTypes == {"regression_detected", "guardrail_failed"}

\* C29: every regression_detected and guardrail_failed audit event written by
\* should_promote carries the candidate version's id as its prompt_version_id,
\* so get_audit_trail filtered by the candidate version id returns exactly the
\* events logged for that candidate's experiments and none logged for another
\* version.
C29_GuardrailEventsNameTheCandidate ==
    [][(calls' = calls + 1 /\ ret'.op = "should_promote") =>
           LET candidate_version_id == experiments[ret'.experiment_id].candidate_version_id
               written == SubSeq(events', Len(events) + 1, Len(events'))
               logged == SelectSeq(written, LAMBDA e : e.event_type \in GuardrailEventTypes)
               before == get_audit_trail(events, candidate_version_id, None, 100)
           IN /\ \A i \in 1..Len(logged) : logged[i].prompt_version_id = candidate_version_id
              /\ get_audit_trail(events', candidate_version_id, None, 100) = before \o logged
      ]_vars

EvaluateStep == ret.op = "init" /\ ret'.op = "evaluate"

\* C30: Evaluator.evaluate persists evaluation rows only after every case of
\* the dataset has been scored: if it fails (version not found, a case's
\* template fails to render, or a model or judge call raises on any case) it
\* has persisted no EvaluationResult row, and when it succeeds it has appended
\* exactly one row per dimension that has at least one scored case and
\* modified no existing row.
C30_RowsOnlyAfterEveryCase ==
    [][EvaluateStep =>
           IF ret'.raised /= ""
           THEN evaluation_results' = evaluation_results
           ELSE LET per_case == ret'.response.per_case_breakdown
                    added == SubSeq(evaluation_results', Len(evaluation_results) + 1,
                                    Len(evaluation_results'))
                    scored == {d \in DimensionSet(AllDimensions) : ScoredCases(per_case, d) /= {}}
                IN /\ Len(evaluation_results') >= Len(evaluation_results)
                   /\ SubSeq(evaluation_results', 1, Len(evaluation_results)) = evaluation_results
                   /\ \A d \in scored :
                          Cardinality({k \in 1..Len(added) : added[k].dimension = d}) = 1
                   /\ \A k \in 1..Len(added) :
                          /\ added[k].dimension \in scored
                          /\ added[k].prompt_version_id = ret'.prompt_version_id
                          /\ added[k].dataset_id = dataset[1].dataset_id
      ]_vars

====
